---- MODULE Spec2Model ----
(***************************************************************************)
(* Cypress Autonomous Agent: the analysis -> strategy -> generation        *)
(* pipeline (ProjectAnalyzer, TestStrategy, TestSpecGenerator) and its     *)
(* controller (CypressAutonomousAgent.processRepository) with the          *)
(* repository-acquisition collaborator (GitHubHandler).                    *)
(*                                                                         *)
(* Conventions of the model                                                *)
(*  - a path is a sequence of segment names; a name is an atom whose       *)
(*    textual properties (starts with a dot, contains "form", ...) are     *)
(*    given by the name tables below;                                      *)
(*  - a dependency map is a function from declared package names to        *)
(*    version strings; a JavaScript truthiness test on a version is        *)
(*    Truthy (the empty string is falsy);                                  *)
(*  - JavaScript numbers that are not integers are kept in hundredths.     *)
(***************************************************************************)
EXTENDS Integers, Sequences, FiniteSets, TLC

\* ------------------------------------------------------------------------
\* Bounds of the model
\* ------------------------------------------------------------------------
MaxStructure == 152
MaxSmallStructure == 2
MaxSpecs == 5
MaxPatterns == 3
MaxTreeDepth == 5

\* ------------------------------------------------------------------------
\* Generic helpers
\* ------------------------------------------------------------------------
Null == "null"

Min(a, b) == IF a < b THEN a ELSE b

Max(a, b) == IF a > b THEN a ELSE b

Range(s) == {s[i] : i \in 1..Len(s)}

\* JavaScript truthiness of a string value
Truthy(v) == v /= ""

\* obj[key] is truthy: the key is present and its value is truthy
HasTruthy(obj, key) == key \in DOMAIN obj /\ Truthy(obj[key])

\* { ...a, ...b }: the keys of both, b's value winning
Spread(a, b) == [k \in (DOMAIN a) \cup (DOMAIN b) |-> IF k \in DOMAIN b THEN b[k] ELSE a[k]]

\* Array.prototype.filter, order preserved
RECURSIVE SelectSeqBy(_, _)
SelectSeqBy(s, keep) ==
    IF s = <<>> THEN <<>>
    ELSE (IF Head(s) \in keep THEN <<Head(s)>> ELSE <<>>) \o SelectSeqBy(Tail(s), keep)

\* ------------------------------------------------------------------------
\* Name tables: the textual properties of the names used in the model
\* ------------------------------------------------------------------------
\* names s with s.includes('form') / 'auth' / 'api'
FormNames == {"forms", "LoginForm.tsx"}

AuthNames == {"auth"}

ApiNames == {"api"}

PathIncludes(path, names) == \E i \in 1..Len(path) : path[i] \in names

\* ------------------------------------------------------------------------
\* TestStrategy
\* ------------------------------------------------------------------------
Frameworks == {"react", "vue", "angular", "nextjs", "nuxtjs", "svelte", "traditional", "none"}

strategies ==
    [react |->
        [name |-> "React Testing Strategy",
         priority |-> <<"component-testing", "state-management", "router-testing", "form-testing">>,
         selectors |-> <<"data-testid", "role", "aria-label", "className">>,
         patterns |-> <<"component-rendering", "user-interactions", "state-changes", "api-calls">>],
     vue |->
        [name |-> "Vue Testing Strategy",
         priority |-> <<"component-testing", "vuex-store", "router-testing", "form-validation">>,
         selectors |-> <<"data-test", "v-test", "aria-label", "class">>,
         patterns |-> <<"component-mounting", "event-handling", "computed-properties", "vuex-actions">>],
     angular |->
        [name |-> "Angular Testing Strategy",
         priority |-> <<"component-testing", "service-testing", "router-testing", "form-testing">>,
         selectors |-> <<"data-cy", "data-test", "aria-label">>,
         patterns |-> <<"component-creation", "dependency-injection", "router-navigation", "http-calls">>],
     traditional |->
        [name |-> "Traditional Web App Strategy",
         priority |-> <<"navigation-testing", "form-testing", "content-validation", "user-flows">>,
         selectors |-> <<"id", "class", "name", "data-*">>,
         patterns |-> <<"page-navigation", "form-submission", "content-verification", "user-journey">>]]

\* this.strategies[analysis.framework] || this.strategies.traditional
BaseStrategyNoFallback(framework) ==
    IF framework \in DOMAIN strategies THEN strategies[framework] ELSE strategies["react"]

BaseStrategy(framework) ==
    IF framework \in DOMAIN strategies THEN strategies[framework] ELSE strategies["traditional"]

baseCount == 3

\* Math.max(baseCount, Math.floor(baseCount + structureMultiplier + entryPointsBonus)),
\* structureMultiplier = min(length / 50, 3) and entryPointsBonus = length * 0.5,
\* both kept in hundredths
calculateRecommendedSpecsNoBase(a) ==
    LET structureMultiplier100 == Min(2 * Len(a.projectStructure), 300)
        entryPointsBonus100 == 50 * Len(a.entryPoints)
    IN  (structureMultiplier100 + entryPointsBonus100) \div 100

calculateRecommendedSpecsPerTermFloor(a) ==
    LET structureMultiplier == Min(Len(a.projectStructure) \div 50, 3)
        entryPointsBonus == Len(a.entryPoints) \div 2
    IN  Max(baseCount, baseCount + structureMultiplier + entryPointsBonus)

calculateRecommendedSpecs(a) ==
    LET structureMultiplier100 == Min(2 * Len(a.projectStructure), 300)
        entryPointsBonus100 == 50 * Len(a.entryPoints)
    IN  Max(baseCount, (100 * baseCount + structureMultiplier100 + entryPointsBonus100) \div 100)

\* the same with the entry-point test made first
determineFocusAreasNavigationFirst(a) ==
    LET focusAreas ==
            (IF Len(a.entryPoints) > 1 THEN <<"navigation-testing">> ELSE <<>>)
         \o (IF \E i \in 1..Len(a.projectStructure) : PathIncludes(a.projectStructure[i].path, FormNames)
             THEN <<"form-testing">> ELSE <<>>)
         \o (IF \E i \in 1..Len(a.projectStructure) : PathIncludes(a.projectStructure[i].path, AuthNames)
             THEN <<"authentication">> ELSE <<>>)
         \o (IF \E i \in 1..Len(a.projectStructure) : PathIncludes(a.projectStructure[i].path, ApiNames)
             THEN <<"api-testing">> ELSE <<>>)
    IN  IF Len(focusAreas) = 0 THEN <<"smoke-testing", "critical-flows">> ELSE focusAreas

determineFocusAreas(a) ==
    LET focusAreas ==
            (IF \E i \in 1..Len(a.projectStructure) : PathIncludes(a.projectStructure[i].path, FormNames)
             THEN <<"form-testing">> ELSE <<>>)
         \o (IF \E i \in 1..Len(a.projectStructure) : PathIncludes(a.projectStructure[i].path, AuthNames)
             THEN <<"authentication">> ELSE <<>>)
         \o (IF Len(a.entryPoints) > 1 THEN <<"navigation-testing">> ELSE <<>>)
         \o (IF \E i \in 1..Len(a.projectStructure) : PathIncludes(a.projectStructure[i].path, ApiNames)
             THEN <<"api-testing">> ELSE <<>>)
    IN  IF Len(focusAreas) = 0 THEN <<"smoke-testing", "critical-flows">> ELSE focusAreas

\* the same with the focus-area tag form-testing appended for a form path
selectTestPatternsFormTesting(a, basePatterns) ==
    basePatterns
     \o (IF HasTruthy(a.dependencies, "axios") \/ HasTruthy(a.dependencies, "fetch")
         THEN <<"api-testing">> ELSE <<>>)
     \o (IF Len(a.entryPoints) > 1 THEN <<"multi-page-testing">> ELSE <<>>)
     \o (IF \E i \in 1..Len(a.projectStructure) : PathIncludes(a.projectStructure[i].path, FormNames)
         THEN <<"form-testing">> ELSE <<>>)

selectTestPatterns(a, basePatterns) ==
    basePatterns
     \o (IF HasTruthy(a.dependencies, "axios") \/ HasTruthy(a.dependencies, "fetch")
         THEN <<"api-testing">> ELSE <<>>)
     \o (IF Len(a.entryPoints) > 1 THEN <<"multi-page-testing">> ELSE <<>>)
     \o (IF \E i \in 1..Len(a.projectStructure) : PathIncludes(a.projectStructure[i].path, FormNames)
         THEN <<"form-validation">> ELSE <<>>)

\* { ...baseStrategy, projectType, framework, recommendedSpecs, focusAreas,
\*   testPatterns, selectorStrategy }
generateStrategy(a) ==
    LET baseStrategy == BaseStrategy(a.framework)
    IN  [name |-> baseStrategy.name,
         priority |-> baseStrategy.priority,
         selectors |-> baseStrategy.selectors,
         patterns |-> baseStrategy.patterns,
         projectType |-> a.projectType,
         framework |-> a.framework,
         recommendedSpecs |-> calculateRecommendedSpecs(a),
         focusAreas |-> determineFocusAreas(a),
         testPatterns |-> selectTestPatterns(a, baseStrategy.patterns),
         selectorStrategy |-> baseStrategy.selectors]

\* ------------------------------------------------------------------------
\* TestSpecGenerator
\* ------------------------------------------------------------------------
\* The template bodies, as token sequences; only the token that
\* customizeTemplate looks for ('Bienvenido') is told apart from the rest.
specTemplates ==
    [basic |-> <<"describe('Template Basico')", "cy.contains('", "Bienvenido", "').should('be.visible')", "cy.title()">>,
     navigation |-> <<"describe('Navegacion')", "cy.get('nav a')", "cy.url()">>,
     forms |-> <<"describe('Formularios')", "cy.get('form').submit()", "cy.contains('Campo requerido')">>,
     api |-> <<"describe('API Calls')", "cy.intercept('GET', '/api/data')", "cy.wait('@getData')">>]

templateMap ==
    [x \in {"component-testing", "navigation-testing", "form-testing", "api-testing",
            "user-interactions", "state-changes", "default"} |->
        CASE x = "navigation-testing" -> "navigation"
          [] x = "form-testing" -> "forms"
          [] x = "api-testing" -> "api"
          [] OTHER -> "basic"]

\* the same without the table lookup
getBaseTemplateKeyAlwaysDefault(specType) == templateMap["default"]

\* templateMap[specType] || templateMap.default, as the key of specTemplates
getBaseTemplateKey(specType) ==
    IF specType \in DOMAIN templateMap THEN templateMap[specType] ELSE templateMap["default"]

getBaseTemplate(specType) == specTemplates[getBaseTemplateKey(specType)]

\* String.prototype.replace(token, by): the first occurrence only
RECURSIVE ReplaceFirst(_, _, _)
ReplaceFirst(body, token, by) ==
    IF body = <<>> THEN <<>>
    ELSE IF Head(body) = token THEN <<by>> \o Tail(body)
    ELSE <<Head(body)>> \o ReplaceFirst(Tail(body), token, by)

customizeTemplate(template, a, specType, index, date) ==
    LET customized ==
            IF a.framework = "react" THEN ReplaceFirst(template, "Bienvenido", "React App")
            ELSE IF a.framework = "vue" THEN ReplaceFirst(template, "Bienvenido", "Vue App")
            ELSE IF a.framework = "angular" THEN ReplaceFirst(template, "Bienvenido", "Angular App")
            ELSE template
    IN  [comment |-> [Tipo |-> specType, Framework |-> a.framework,
                      Proyecto |-> a.projectType, Fecha |-> date],
         body |-> customized]

generateSpecContent(specType, a, index, date) ==
    customizeTemplate(getBaseTemplate(specType), a, specType, index, date)

\* index % availableTypes.length (sequences are 1-based here)
selectSpecTypeNoWrap(s, index) ==
    s.testPatterns[Min(index, Len(s.testPatterns) - 1) + 1]

selectSpecType(s, index) ==
    s.testPatterns[(index % Len(s.testPatterns)) + 1]

\* a name that does not depend on the index
SpecNameFixed(i) == <<"generated-spec-", 1, ".cy.js">>

\* `generated-spec-${i + 1}.cy.js` and `cypress/e2e/generated-spec-${i + 1}.cy.js`
SpecName(i) == <<"generated-spec-", i + 1, ".cy.js">>

SpecPath(i) == [dir |-> "cypress/e2e/", name |-> SpecName(i)]

\* the same with the time of the call in the file names
generateTestSpecsNamedByDate(a, s, date) ==
    [k \in 1..s.recommendedSpecs |->
        LET i == k - 1
            specType == selectSpecType(s, i)
        IN  [name |-> <<"generated-spec-", date, ".cy.js">>,
             type |-> specType,
             content |-> generateSpecContent(specType, a, i, date),
             path |-> [dir |-> "cypress/e2e/", name |-> <<"generated-spec-", date, ".cy.js">>]]]

generateTestSpecs(a, s, date) ==
    [k \in 1..s.recommendedSpecs |->
        LET i == k - 1
            specType == selectSpecType(s, i)
        IN  [name |-> SpecName(i),
             type |-> specType,
             content |-> generateSpecContent(specType, a, i, date),
             path |-> SpecPath(i)]]

\* ------------------------------------------------------------------------
\* The file system of a checked-out repository
\* ------------------------------------------------------------------------
\* A repository tree is [dirs, files, denied, packageJson]: the sets of
\* directory and file paths (relative to the repository root), the paths whose
\* readdir/stat fails (permissions), and the manifest's content.

\* every name of the model, in the order readdir lists them
NameOrder ==
    <<".env", ".git", "App.tsx", "LoginForm.tsx", "api", "app", "auth", "cypress",
      "forms", "index.html", "index.js", "index.php", "lib", "login.test.js", "main.js",
      "misc", "node_modules", "package.json", "pages", "pkg.js", "src",
      "vite.config.js", "webpack.config.js">>

\* item.startsWith('.')
StartsWithDot(name) == name \in {".env", ".git"}

\* path.extname(item)
ExtName(name) ==
    CASE name \in {"index.js", "main.js", "pkg.js", "login.test.js",
                   "vite.config.js", "webpack.config.js"} -> ".js"
      [] name \in {"App.tsx", "LoginForm.tsx"} -> ".tsx"
      [] name = "index.html" -> ".html"
      [] name = "index.php" -> ".php"
      [] name = "package.json" -> ".json"
      [] OTHER -> ""

Prefixes(path) == {SubSeq(path, 1, k) : k \in 0..Len(path)}

Exists(fs, path) == path \in fs.dirs \/ path \in fs.files \/ path = <<>>

\* fs.readdir(fullPath): the items of a directory, or a failure
ReadDirFails(fs, path) ==
    \/ path \in fs.denied
    \/ ~(path = <<>> \/ path \in fs.dirs)

ReadDir(fs, path) ==
    SelectSeqBy(NameOrder, {n \in Range(NameOrder) : Exists(fs, path \o <<n>>)})

\* fs.stat(fullItemPath)
StatFails(fs, path) == path \in fs.denied \/ ~Exists(fs, path)

\* ------------------------------------------------------------------------
\* ProjectAnalyzer
\* ------------------------------------------------------------------------
frameworkIndicators ==
    << [framework |-> "react", indicators |-> <<"react", "react-dom", "next", "gatsby">>],
       [framework |-> "vue", indicators |-> <<"vue", "nuxt", "vuex", "vue-router">>],
       [framework |-> "angular", indicators |-> <<"@angular/core", "@angular/common", "rxjs">>],
       [framework |-> "nextjs", indicators |-> <<"next", "react">>],
       [framework |-> "nuxtjs", indicators |-> <<"nuxt", "vue">>],
       [framework |-> "svelte", indicators |-> <<"svelte", "svelte-kit">>],
       [framework |-> "traditional", indicators |-> <<"jquery", "bootstrap", "popper.js">>] >>

\* the analysis record deepAnalysis starts from
NewAnalysis(date) ==
    [projectType |-> "unknown",
     framework |-> "none",
     hasPackageJson |-> FALSE,
     dependencies |-> <<>>,
     devDependencies |-> <<>>,
     dependenciesInstalled |-> FALSE,
     cypressInstalled |-> FALSE,
     projectStructure |-> <<>>,
     entryPoints |-> <<>>,
     testFiles |-> <<>>,
     buildTools |-> <<>>,
     executableScripts |-> <<>>,
     analysisDate |-> date,
     hasScripts |-> FALSE,
     scripts |-> <<>>,
     testingFrameworks |-> <<>>,
     buildScripts |-> <<>>]

isImportantDirectory(dirName) ==
    dirName \in {"src", "app", "components", "pages", "public", "tests", "cypress",
                 "e2e", "spec", "features"}

isImportantFile(fileName) ==
    \/ fileName \in {"package.json", "README.md", "index.html", "app.js", "main.js",
                     "index.js", "App.jsx", "App.tsx"}
    \/ ExtName(fileName) \in {".js", ".jsx", ".ts", ".tsx", ".vue", ".svelte"}

\* if (item.startsWith('.') || item === 'node_modules' || item === '.git') continue
SkipItemNothing(item) == FALSE

SkipItem(item) == StartsWithDot(item) \/ item = "node_modules" \/ item = ".git"

\* if (depth > 3) return
DepthCap == 3

\* if (depth < 2 || this.isImportantDirectory(item)) recurse
DescendAlways(item, depth) == TRUE

Descend(item, depth) == depth < 2 \/ isImportantDirectory(item)

\* else if (stat.isFile() && depth <= 2)
RecordFile(depth) == depth <= 2

RECURSIVE analyzeProjectStructure(_, _, _, _)
RECURSIVE WalkItems(_, _, _, _, _)
\* the same without the test of the depth
analyzeProjectStructureNoCap(fs, structure, currentPath, depth) ==
    IF ReadDirFails(fs, currentPath) THEN structure
    ELSE WalkItems(fs, structure, currentPath, depth, ReadDir(fs, currentPath))

analyzeProjectStructure(fs, structure, currentPath, depth) ==
    IF depth > DepthCap THEN structure
    ELSE IF ReadDirFails(fs, currentPath) THEN structure
    ELSE WalkItems(fs, structure, currentPath, depth, ReadDir(fs, currentPath))

WalkItems(fs, structure, currentPath, depth, items) ==
    IF items = <<>> THEN structure
    ELSE
        LET item == Head(items)
            itemPath == currentPath \o <<item>>
            after ==
                IF SkipItem(item) THEN structure
                ELSE IF StatFails(fs, itemPath) THEN structure
                ELSE IF itemPath \in fs.dirs THEN
                    LET pushed == Append(structure,
                                    [type |-> "directory", path |-> itemPath, depth |-> depth,
                                     important |-> isImportantDirectory(item)])
                    IN  IF Descend(item, depth)
                        THEN analyzeProjectStructure(fs, pushed, itemPath, depth + 1)
                        ELSE pushed
                ELSE IF RecordFile(depth) THEN
                    Append(structure,
                        [type |-> "file", path |-> itemPath, extension |-> ExtName(item),
                         size |-> 1, important |-> isImportantFile(item)])
                ELSE structure
        IN  WalkItems(fs, after, currentPath, depth, Tail(items))

\* the same with hasPackageJson set as soon as the file exists, before readJson
analyzePackageJsonFlagOnExists(fs, a) ==
    IF ~Exists(fs, <<"package.json">>) THEN a
    ELSE IF fs.packageJson.kind \in {"invalid", "null"} \/ <<"package.json">> \in fs.denied
         THEN [a EXCEPT !.hasPackageJson = TRUE]
    ELSE [a EXCEPT !.hasPackageJson = TRUE,
                   !.dependencies = fs.packageJson.dependencies,
                   !.devDependencies = fs.packageJson.devDependencies,
                   !.hasScripts = TRUE,
                   !.scripts = fs.packageJson.scripts]

\* analyzePackageJson: failures of readJson, and of reading a field of a
\* manifest that is the JSON value null, are caught inside
analyzePackageJson(fs, a) ==
    IF ~Exists(fs, <<"package.json">>) THEN a
    ELSE IF fs.packageJson.kind = "invalid" \/ <<"package.json">> \in fs.denied THEN a
    ELSE IF fs.packageJson.kind = "null" THEN [a EXCEPT !.hasPackageJson = TRUE]
    ELSE [a EXCEPT !.hasPackageJson = TRUE,
                   !.dependencies = fs.packageJson.dependencies,
                   !.devDependencies = fs.packageJson.devDependencies,
                   !.hasScripts = TRUE,
                   !.scripts = fs.packageJson.scripts]

\* the keywords a script name or command contains (String.prototype.includes)
TextKeywords(text) ==
    CASE text = "build" -> {"build"}
      [] text = "test" -> {"test"}
      [] text = "start" -> {"start"}
      [] text = "vite build" -> {"vite", "build"}
      [] text = "cypress run" -> {"cypress"}
      [] text = "node server.js" -> {"serve"}
      [] OTHER -> {}

\* command.toLowerCase() of a command that is not a string raises a TypeError
canExecuteScriptThrows(command) == ~command.isString

canExecuteScript(command) ==
    TextKeywords(command.text) \cap
        {"start", "dev", "serve", "build", "test", "cypress", "lint",
         "typecheck", "storybook", "compile", "deploy"} /= {}

getScriptType(scriptName, command) ==
    LET has(kw) == kw \in TextKeywords(scriptName) \/ kw \in TextKeywords(command.text)
    IN  CASE has("test") -> "test"
          [] has("build") -> "build"
          [] has("start") -> "start"
          [] has("dev") -> "dev"
          [] has("cypress") -> "cypress"
          [] "lint" \in TextKeywords(scriptName) -> "lint"
          [] OTHER -> "other"

analyzeExecutableScriptsThrows(scripts) ==
    \E i \in 1..Len(scripts) : canExecuteScriptThrows(scripts[i].command)

analyzeExecutableScripts(scripts) ==
    [i \in 1..Len(scripts) |->
        [name |-> scripts[i].name,
         command |-> scripts[i].command,
         canExecute |-> canExecuteScript(scripts[i].command),
         type |-> getScriptType(scripts[i].name, scripts[i].command)]]

testingLibs ==
    << <<"cypress", "Cypress">>, <<"jest", "Jest">>, <<"mocha", "Mocha">>,
       <<"jasmine", "Jasmine">>, <<"vitest", "Vitest">>,
       <<"@testing-library/react", "Testing Library React">>,
       <<"@testing-library/vue", "Testing Library Vue">>,
       <<"@testing-library/angular", "Testing Library Angular">>,
       <<"enzyme", "Enzyme">>, <<"puppeteer", "Puppeteer">>, <<"playwright", "Playwright">> >>

detectTestingFrameworks(dependencies, devDependencies) ==
    LET allDeps == Spread(dependencies, devDependencies)
        hit == SelectSeqBy(testingLibs, {t \in Range(testingLibs) : HasTruthy(allDeps, t[1])})
    IN  [i \in 1..Len(hit) |-> hit[i][2]]

\* analyzeInstalledDependencies: the whole body is inside one try; its catch
\* sets dependenciesInstalled = false and leaves the other fields as they are
analyzeInstalledDependencies(fs, a) ==
    IF ~Exists(fs, <<"node_modules">>) THEN [a EXCEPT !.dependenciesInstalled = FALSE]
    ELSE
        LET a1 == [a EXCEPT !.dependenciesInstalled = TRUE,
                            !.cypressInstalled = Exists(fs, <<"node_modules", "cypress">>)]
        IN  IF a1.hasScripts /\ analyzeExecutableScriptsThrows(a1.scripts)
            THEN [a1 EXCEPT !.dependenciesInstalled = FALSE]
            ELSE [a1 EXCEPT !.executableScripts =
                                IF a1.hasScripts THEN analyzeExecutableScripts(a1.scripts)
                                ELSE a1.executableScripts,
                            !.testingFrameworks =
                                detectTestingFrameworks(a1.dependencies, a1.devDependencies)]

\* s.includes('pages/'), 'app/', 'views/': a segment ending so, not the last
SegmentBefore(path, names) == \E i \in 1..(Len(path) - 1) : path[i] \in names

determineProjectType(a, allDeps) ==
    LET structure == [i \in 1..Len(a.projectStructure) |-> a.projectStructure[i].path]
        some(P(_)) == \E i \in 1..Len(structure) : P(structure[i])
        pagesOrApp(s) == SegmentBefore(s, {"pages"}) \/ SegmentBefore(s, {"app"})
        pagesOrViews(s) == SegmentBefore(s, {"pages"}) \/ SegmentBefore(s, {"views"})
        indexHtml(s) == PathIncludes(s, {"index.html"})
        php(s) == PathIncludes(s, {"index.php", "app.php"})
    IN  CASE a.framework = "react" ->
                IF HasTruthy(allDeps, "next") THEN "Next.js Application"
                ELSE IF HasTruthy(allDeps, "gatsby") THEN "Gatsby Application"
                ELSE IF some(pagesOrApp) THEN "React SPA"
                ELSE "React Application"
          [] a.framework = "vue" ->
                IF HasTruthy(allDeps, "nuxt") THEN "Nuxt.js Application"
                ELSE IF some(pagesOrViews) THEN "Vue SPA"
                ELSE "Vue Application"
          [] a.framework = "angular" -> "Angular Application"
          [] a.framework = "nextjs" -> "Next.js SSR Application"
          [] a.framework = "nuxtjs" -> "Nuxt.js SSR Application"
          [] a.framework = "svelte" ->
                IF HasTruthy(allDeps, "svelte-kit") THEN "SvelteKit Application"
                ELSE "Svelte Application"
          [] OTHER ->
                IF some(indexHtml) THEN "Traditional Web Application"
                ELSE IF some(php) THEN "PHP Application"
                ELSE "Unknown Project Type"

\* indicators.some(indicator => allDeps[indicator])
IndicatorHit(allDeps, indicators) ==
    \E i \in 1..Len(indicators) : HasTruthy(allDeps, indicators[i])

\* the same loop without the break: the last matching entry wins
FirstFrameworkNoBreak(allDeps, current) ==
    LET hits == {i \in 1..Len(frameworkIndicators) :
                    IndicatorHit(allDeps, frameworkIndicators[i].indicators)}
    IN  IF hits = {} THEN current
        ELSE frameworkIndicators[CHOOSE i \in hits : \A j \in hits : i >= j].framework

\* for (...) { if (hit) { analysis.framework = framework; break; } }
FirstFramework(allDeps, current) ==
    LET hits == {i \in 1..Len(frameworkIndicators) :
                    IndicatorHit(allDeps, frameworkIndicators[i].indicators)}
    IN  IF hits = {} THEN current
        ELSE frameworkIndicators[CHOOSE i \in hits : \A j \in hits : i <= j].framework

\* the same without the assignment of analysis.framework
detectFrameworkAndTypeKeepsFramework(a) ==
    LET allDeps == Spread(a.dependencies, a.devDependencies)
    IN  [a EXCEPT !.projectType = determineProjectType(a, allDeps)]

detectFrameworkAndType(a) ==
    LET allDeps == Spread(a.dependencies, a.devDependencies)
        detected == FirstFramework(allDeps, a.framework)
        a1 == [a EXCEPT !.framework = IF detected = "none" THEN "traditional" ELSE detected]
    IN  [a1 EXCEPT !.projectType = determineProjectType(a1, allDeps)]

possibleEntries ==
    << <<"index.html">>, <<"src", "index.js">>, <<"src", "main.js">>, <<"src", "index.ts">>,
       <<"public", "index.html">>, <<"app", "index.html">>, <<"src", "App.js">>,
       <<"src", "App.tsx">>, <<"index.php">>, <<"app.php">>, <<"main.js">>, <<"app.js">>,
       <<"App.jsx">>, <<"App.tsx">>, <<"src", "main.ts">>, <<"src", "main.tsx">> >>

findEntryPoints(fs, a) ==
    LET found == SelectSeqBy(possibleEntries, {e \in Range(possibleEntries) : Exists(fs, e)})
    IN  [a EXCEPT !.entryPoints =
            a.entryPoints \o [i \in 1..Len(found) |-> [path |-> found[i], exists |-> TRUE]]]

\* The literal fragment globFind looks for, per pattern of findExistingTests:
\* pattern.replace('**/', '').replace('*', ''), each replacing the first
\* occurrence only.  A fragment is a sequence of pieces separated by '/'; a
\* path includes it when consecutive segments end with the first piece, equal
\* the middle pieces and start with the last piece (a one-piece fragment is
\* contained in one segment).
testPatternFragments ==
    << <<".test.js">>, <<".spec.js">>, <<".test.ts">>, <<".spec.ts">>,
       <<"cypress", "e2e", ".js">>, <<"cypress", "e2e", ".ts">>,
       <<"tests", ".js">>, <<"test", ".js">>, <<"e2e", ".js">>,
       <<"__tests__", "*", "*.js">>, <<"__tests__", "*", "*.ts">> >>

\* names containing / ending with / starting with a piece
NamesContaining(piece) == IF piece = ".test.js" THEN {"login.test.js"} ELSE {}

NamesEndingWith(piece) == IF piece = "cypress" THEN {"cypress"} ELSE {}

NamesStartingWith(piece) == {}

PathIncludesFragment(path, fragment) ==
    IF Len(fragment) = 1 THEN PathIncludes(path, NamesContaining(fragment[1]))
    ELSE \E i \in 1..(Len(path) - Len(fragment) + 1) :
            /\ path[i] \in NamesEndingWith(fragment[1])
            /\ \A k \in 2..(Len(fragment) - 1) : path[i + k - 1] = fragment[k]
            /\ path[i + Len(fragment) - 1] \in NamesStartingWith(fragment[Len(fragment)])

\* globFind.search: one try around the listing of a directory, so a failing
\* stat ends the listing of that directory
RECURSIVE search(_, _, _, _)
RECURSIVE SearchItems(_, _, _, _, _)
search(fs, results, dir, fragment) ==
    IF ReadDirFails(fs, dir) THEN results
    ELSE SearchItems(fs, results, dir, fragment, ReadDir(fs, dir))

SearchItems(fs, results, dir, fragment, items) ==
    IF items = <<>> THEN results
    ELSE
        LET item == Head(items)
            fullPath == dir \o <<item>>
        IN  IF item = "node_modules" \/ item = ".git"
            THEN SearchItems(fs, results, dir, fragment, Tail(items))
            ELSE IF StatFails(fs, fullPath) THEN results
            ELSE IF fullPath \in fs.dirs
            THEN SearchItems(fs, search(fs, results, fullPath, fragment), dir, fragment, Tail(items))
            ELSE SearchItems(fs,
                    IF PathIncludesFragment(fullPath, fragment)
                    THEN Append(results, fullPath) ELSE results,
                    dir, fragment, Tail(items))

globFind(fs, fragment) == search(fs, <<>>, <<>>, fragment)

getTestType(filePath) ==
    IF PathIncludes(filePath, {"cypress"}) THEN "e2e"
    ELSE IF PathIncludes(filePath, {"login.test.js"}) THEN "unit"
    ELSE "unknown"

getTestFramework(filePath) ==
    IF PathIncludes(filePath, {"cypress"}) THEN "Cypress" ELSE "Unknown"

RECURSIVE findExistingTestsFrom(_, _, _)
findExistingTestsFrom(fs, testFiles, k) ==
    IF k > Len(testPatternFragments) THEN testFiles
    ELSE
        LET files == globFind(fs, testPatternFragments[k])
        IN  findExistingTestsFrom(fs,
                testFiles \o [i \in 1..Len(files) |->
                                [path |-> files[i], type |-> getTestType(files[i]),
                                 framework |-> getTestFramework(files[i])]],
                k + 1)

findExistingTests(fs, a) ==
    [a EXCEPT !.testFiles = findExistingTestsFrom(fs, a.testFiles, 1)]

buildConfigs ==
    << <<"webpack.config.js", "Webpack">>, <<"vite.config.js", "Vite">>,
       <<"vite.config.ts", "Vite">>, <<"rollup.config.js", "Rollup">>,
       <<"parcel.config.js", "Parcel">>, <<"angular.json", "Angular CLI">>,
       <<"vue.config.js", "Vue CLI">>, <<"next.config.js", "Next.js">>,
       <<"nuxt.config.js", "Nuxt.js">>, <<"svelte.config.js", "Svelte">> >>

\* the filter callback of analyzeBuildTools: name.includes('build') ||
\* cmd.includes('webpack') || ...; cmd.includes of a command that is not a
\* string raises a TypeError, which analyzeBuildTools does not catch
IsBuildScriptThrows(script) ==
    "build" \notin TextKeywords(script.name) /\ ~script.command.isString

IsBuildScript(script) ==
    \/ "build" \in TextKeywords(script.name)
    \/ TextKeywords(script.command.text) \cap {"webpack", "vite", "rollup"} /= {}

analyzeBuildToolsThrows(a) ==
    a.hasScripts /\ \E i \in 1..Len(a.scripts) : IsBuildScriptThrows(a.scripts[i])

\* the record analyzeBuildTools leaves, also when it throws: buildTools is
\* assigned before the scripts are looked at, buildScripts only after
analyzeBuildTools(fs, a) ==
    LET found == SelectSeqBy(buildConfigs, {c \in Range(buildConfigs) : Exists(fs, <<c[1]>>)})
        a1 == [a EXCEPT !.buildTools =
                  [i \in 1..Len(found) |-> [name |-> found[i][2], configFile |-> found[i][1]]]]
        buildScripts == SelectSeqBy(a.scripts, {x \in Range(a.scripts) : IsBuildScript(x)})
    IN  IF analyzeBuildToolsThrows(a) THEN a1
        ELSE IF a.hasScripts /\ Len(buildScripts) > 0
        THEN [a1 EXCEPT !.buildScripts = buildScripts]
        ELSE a1

\* ------------------------------------------------------------------------
\* State
\* ------------------------------------------------------------------------
\* Two invocations of processRepository share one agent (the webhook's).
Runs == {"r1", "r2"}

VARIABLES
    pc,             \* per run: where the invocation stands
    githubUrl,      \* per run: the argument of processRepository
    repoPath,       \* per run: cloneAndAnalyze's repoPath, <<>> before it is computed
    tempPath,       \* per run: processRepository's tempPath, <<>> while null
    daAnalysis,     \* per run: deepAnalysis's local record `analysis`
    analysis,       \* per run: processRepository's `analysis`, what deepAnalysis returned
    thrown,         \* per run: the exception in flight or last caught, <<>> if none
    cypressCheck,   \* per run: the result of checkCypressSetup
    strategy,       \* per run: the result of generateStrategy
    generatedSpecs, \* per run: the result of generateTestSpecs
    saveIdx,        \* per run: saveSpecsToDisk's position in the spec list
    specsSaved,     \* per run: the result of saveSpecsToDisk
    specSummary,    \* per run: the result of generateSpecSummary
    envelope,       \* per run: what processRepository returned, <<>> before
    stageLog,       \* per run: the stages begun and ended, in order (history)
    now,            \* Date.now(), the clock
    tempRepos,      \* the temp-repos directory: repository path -> tree
    outputDir,      \* the generated-specs directory: file name -> content
    request,        \* per run: the body of the webhook request that started it, <<>> if none
    response        \* per run: the webhook's HTTP response, <<>> before it is sent

runVars == <<pc, githubUrl, repoPath, tempPath, daAnalysis, analysis, thrown, cypressCheck, strategy,
             generatedSpecs, saveIdx, specsSaved, specSummary, envelope, stageLog>>

hookVars == <<request, response>>

\* what lies outside processRepository: the clock, the two directories and
\* the HTTP exchange
envVars == <<now, tempRepos, outputDir, request, response>>

vars == <<pc, githubUrl, repoPath, tempPath, daAnalysis, analysis, thrown, cypressCheck, strategy,
          generatedSpecs, saveIdx, specsSaved, specSummary, envelope, stageLog,
          now, tempRepos, outputDir, request, response>>

\* every variable but pc, analysis, strategy and generatedSpecs as Init leaves it
RestIdle ==
    /\ githubUrl = [r \in Runs |-> ""]
    /\ repoPath = [r \in Runs |-> <<>>]
    /\ tempPath = [r \in Runs |-> <<>>]
    /\ daAnalysis = [r \in Runs |-> <<>>]
    /\ thrown = [r \in Runs |-> <<>>]
    /\ cypressCheck = [r \in Runs |-> <<>>]
    /\ saveIdx = [r \in Runs |-> 0]
    /\ specsSaved = [r \in Runs |-> FALSE]
    /\ specSummary = [r \in Runs |-> <<>>]
    /\ envelope = [r \in Runs |-> <<>>]
    /\ stageLog = [r \in Runs |-> <<>>]
    /\ now = 0
    /\ tempRepos = <<>>
    /\ outputDir = <<>>
    /\ request = [r \in Runs |-> <<>>]
    /\ response = [r \in Runs |-> <<>>]

\* ------------------------------------------------------------------------
\* TestStrategy and TestSpecGenerator as functions of their arguments
\* ------------------------------------------------------------------------
FillerEntry == [type |-> "directory", path |-> <<"lib">>, depth |-> 0, important |-> FALSE]

SignalEntry(name) == [type |-> "directory", path |-> <<name>>, depth |-> 0, important |-> FALSE]

\* an Analysis with the given framework, dependencies, structure and number
\* of entry points (the first e candidates)
AnalysisOf(framework, deps, structure, e) ==
    LET a == [NewAnalysis(0) EXCEPT
                !.framework = framework,
                !.dependencies = deps,
                !.hasPackageJson = TRUE,
                !.projectStructure = structure,
                !.entryPoints = [i \in 1..e |-> [path |-> possibleEntries[i], exists |-> TRUE]]]
    IN  [a EXCEPT !.projectType = determineProjectType(a, deps)]

\* Analyses of every size: L structure entries, E entry points
SizeAnalyses ==
    {AnalysisOf("react", [react |-> "^18.0.0"], [i \in 1..l |-> FillerEntry], e) :
        l \in 0..MaxStructure, e \in 0..Len(possibleEntries)}

SignalNames == <<"forms", "auth", "api">>

SignalEntries(sig) ==
    LET names == SelectSeqBy(SignalNames, sig)
    IN  [i \in 1..Len(names) |-> SignalEntry(names[i])]

\* Analyses of every shape: any framework, any subset of the path signals, a
\* few filler entries, a few entry points, an HTTP client declared or not
ShapeAnalyses ==
    {AnalysisOf(f, d, SignalEntries(sig) \o [i \in 1..l |-> FillerEntry], e) :
        f \in Frameworks,
        d \in {<<>>, [axios |-> ""], [axios |-> "^1.6.0"], [fetch |-> "^3.0.0"]},
        sig \in SUBSET {"forms", "auth", "api"},
        l \in 0..MaxSmallStructure,
        e \in 0..2}

PatternSeqs ==
    UNION {[1..m -> {"api-testing", "form-testing", "page-navigation"}] : m \in 1..MaxPatterns}

\* Strategies handed to the generator directly: any count from 0, any
\* non-empty pattern list
DirectStrategies ==
    {[generateStrategy(AnalysisOf("vue", <<>>, <<>>, 0)) EXCEPT
        !.recommendedSpecs = n, !.testPatterns = p] :
        n \in 0..MaxSpecs, p \in PatternSeqs}

\* the value v for run r1, nothing for the other run
OnlyR1(v, none) == [r \in Runs |-> IF r = "r1" THEN v ELSE none]

FnInit ==
    /\ RestIdle
    /\ generatedSpecs = [r \in Runs |-> <<>>]
    /\ \/ /\ pc = OnlyR1("fn_analysis", "idle")
          /\ \E a \in SizeAnalyses \cup ShapeAnalyses : analysis = OnlyR1(a, <<>>)
          /\ strategy = [r \in Runs |-> <<>>]
       \/ /\ pc = OnlyR1("fn_direct", "idle")
          /\ \E f \in {"react", "svelte"} : analysis = OnlyR1(AnalysisOf(f, <<>>, <<>>, 0), <<>>)
          /\ \E s \in DirectStrategies : strategy = OnlyR1(s, <<>>)

FnGenerateStrategy(r) ==
    /\ pc[r] = "fn_analysis"
    /\ strategy' = [strategy EXCEPT ![r] = generateStrategy(analysis[r])]
    /\ pc' = [pc EXCEPT ![r] = "fn_strategy"]
    /\ UNCHANGED <<githubUrl, repoPath, tempPath, daAnalysis, analysis, thrown, cypressCheck,
                   generatedSpecs, saveIdx, specsSaved, specSummary, envelope, stageLog>>
    /\ UNCHANGED envVars

\* fn_strategy: the strategy is generateStrategy's; fn_direct: it was handed in
FnGenerateTestSpecs(r) ==
    /\ pc[r] \in {"fn_strategy", "fn_direct"}
    /\ generatedSpecs' = [generatedSpecs EXCEPT ![r] = generateTestSpecs(analysis[r], strategy[r], now)]
    /\ pc' = [pc EXCEPT ![r] = IF pc[r] = "fn_strategy" THEN "fn_specs" ELSE "fn_direct_specs"]
    /\ UNCHANGED <<githubUrl, repoPath, tempPath, daAnalysis, analysis, thrown, cypressCheck,
                   strategy, saveIdx, specsSaved, specSummary, envelope, stageLog>>
    /\ UNCHANGED envVars

FnNext == \E r \in Runs : FnGenerateStrategy(r) \/ FnGenerateTestSpecs(r)

FnSpec == FnInit /\ [][FnNext]_vars

\* ---- C1 ----------------------------------------------------------------
\* C1: for a Strategy with recommendedSpecs = n >= 0 and a non-empty
\* testPatterns of length m, generateTestSpecs returns exactly n specs and
\* the i-th spec (i in 0..n-1) has type testPatterns[i mod m].
C1_RoundRobin ==
    \A r \in Runs :
        pc[r] \in {"fn_specs", "fn_direct_specs"} =>
            LET n == strategy[r].recommendedSpecs
                m == Len(strategy[r].testPatterns)
            IN  /\ Len(generatedSpecs[r]) = n
                /\ \A i \in 0..(n - 1) :
                      generatedSpecs[r][i + 1].type = strategy[r].testPatterns[(i % m) + 1]

\* a run of the generator that wraps around a list of two distinct patterns
C1_Witness ==
    /\ pc["r1"] = "fn_direct_specs"
    /\ strategy["r1"].recommendedSpecs = 5
    /\ strategy["r1"].testPatterns = <<"api-testing", "form-testing">>
    /\ generatedSpecs["r1"][5].type = "api-testing"

\* ---- C2 ----------------------------------------------------------------
\* C2: for every Analysis generateStrategy returns recommendedSpecs >= 3, so
\* the generator never produces zero specs; for the Analysis with no
\* structure entry and no entry point the count is exactly 3.
C2_FloorCount ==
    \A r \in Runs :
        /\ pc[r] \in {"fn_strategy", "fn_specs"} =>
              /\ strategy[r].recommendedSpecs >= 3
              /\ (Len(analysis[r].projectStructure) = 0 /\ Len(analysis[r].entryPoints) = 0)
                    => strategy[r].recommendedSpecs = 3
        /\ pc[r] = "fn_specs" => Len(generatedSpecs[r]) >= 3

\* the empty Analysis went through the strategy engine and the generator
C2_Witness ==
    /\ pc["r1"] = "fn_specs"
    /\ Len(analysis["r1"].projectStructure) = 0
    /\ Len(analysis["r1"].entryPoints) = 0
    /\ Len(generatedSpecs["r1"]) = 3

\* ---- C3 ----------------------------------------------------------------
\* C3: recommendedSpecs = max(3, floor(3 + min(L/50, 3) + 0.5*E)): it is the
\* one integer r with r <= 3 + min(L/50, 3) + E/2 < r + 1 (the floor is taken
\* of the whole sum), and the structure term is 3 from L = 150 on.
C3_CountFormula ==
    \A r \in Runs :
        pc[r] \in {"fn_strategy", "fn_specs"} =>
            LET L == Len(analysis[r].projectStructure)
                E == Len(analysis[r].entryPoints)
                n == strategy[r].recommendedSpecs
                structure100 == IF L >= 150 THEN 300 ELSE 2 * L
                sum100 == 300 + structure100 + 50 * E
            IN  /\ 100 * n <= sum100
                /\ sum100 < 100 * (n + 1)
                /\ L >= 150 => n = 6 + (E \div 2)

\* 25 entries and one entry point: 3 + 0.5 + 0.5 = 4, where flooring each
\* term would give 3
C3_Witness ==
    /\ pc["r1"] = "fn_strategy"
    /\ Len(analysis["r1"].projectStructure) = 25
    /\ Len(analysis["r1"].entryPoints) = 1
    /\ strategy["r1"].recommendedSpecs = 4

\* ---- C4 ----------------------------------------------------------------
\* C4: for an Analysis whose framework is not a key of the profile table
\* (nextjs, nuxtjs, svelte, none) generateStrategy returns the traditional
\* profile's name, its selectors, and its patterns as the base of testPatterns.
C4_TraditionalFallback ==
    \A r \in Runs :
        (/\ pc[r] \in {"fn_strategy", "fn_specs"}
         /\ analysis[r].framework \notin {"react", "vue", "angular", "traditional"}) =>
            /\ strategy[r].name = "Traditional Web App Strategy"
            /\ strategy[r].selectorStrategy = <<"id", "class", "name", "data-*">>
            /\ Len(strategy[r].testPatterns) >= 4
            /\ SubSeq(strategy[r].testPatterns, 1, 4) =
                  <<"page-navigation", "form-submission", "content-verification", "user-journey">>

\* the strategy of a nextjs Analysis was generated
C4_Witness ==
    /\ pc["r1"] = "fn_strategy"
    /\ analysis["r1"].framework = "nextjs"
    /\ strategy["r1"].name = "Traditional Web App Strategy"

\* ------------------------------------------------------------------------
\* detectFrameworkAndType as a function of the two dependency maps
\* ------------------------------------------------------------------------
\* a declared version: npm reads the empty string as "any version"
Versions == {"", "^1.0.0"}

DepMaps(packages) == UNION {[d -> Versions] : d \in SUBSET packages}

DetectInit ==
    /\ RestIdle
    /\ generatedSpecs = [r \in Runs |-> <<>>]
    /\ strategy = [r \in Runs |-> <<>>]
    /\ pc = OnlyR1("detect_in", "idle")
    /\ \E deps \in DepMaps({"react", "next", "vue", "nuxt", "rxjs", "svelte", "jquery"}),
          devDeps \in DepMaps({"react", "vue"}) :
            analysis = OnlyR1([NewAnalysis(0) EXCEPT !.hasPackageJson = TRUE,
                                                     !.dependencies = deps,
                                                     !.devDependencies = devDeps,
                                                     !.hasScripts = TRUE], <<>>)

DetectFrameworkAndType(r) ==
    /\ pc[r] = "detect_in"
    /\ analysis' = [analysis EXCEPT ![r] = detectFrameworkAndType(analysis[r])]
    /\ pc' = [pc EXCEPT ![r] = "detect_out"]
    /\ UNCHANGED <<githubUrl, repoPath, tempPath, daAnalysis, thrown, cypressCheck, strategy,
                   generatedSpecs, saveIdx, specsSaved, specSummary, envelope, stageLog>>
    /\ UNCHANGED envVars

DetectNext == \E r \in Runs : DetectFrameworkAndType(r)

DetectSpec == DetectInit /\ [][DetectNext]_vars

\* ---- C5 ----------------------------------------------------------------
\* the frameworks in table order, and the packages that indicate each
C5_TableOrder == <<"react", "vue", "angular", "nextjs", "nuxtjs", "svelte", "traditional">>

C5_Indicators(f) ==
    CASE f = "react" -> {"react", "react-dom", "next", "gatsby"}
      [] f = "vue" -> {"vue", "nuxt", "vuex", "vue-router"}
      [] f = "angular" -> {"@angular/core", "@angular/common", "rxjs"}
      [] f = "nextjs" -> {"next", "react"}
      [] f = "nuxtjs" -> {"nuxt", "vue"}
      [] f = "svelte" -> {"svelte", "svelte-kit"}
      [] f = "traditional" -> {"jquery", "bootstrap", "popper.js"}

\* C5: detectFrameworkAndType sets framework to the first entry of the table,
\* in table order, one of whose indicators is a package declared in
\* dependencies or devDependencies; it is traditional when there is none.
C5_FirstDeclaredMatch ==
    \A r \in Runs :
        pc[r] = "detect_out" =>
            LET declared == (DOMAIN analysis[r].dependencies) \cup (DOMAIN analysis[r].devDependencies)
                hits == {i \in 1..Len(C5_TableOrder) : C5_Indicators(C5_TableOrder[i]) \cap declared /= {}}
            IN  /\ analysis[r].framework /= "none"
                /\ hits = {} => analysis[r].framework = "traditional"
                /\ hits /= {} =>
                      analysis[r].framework = C5_TableOrder[CHOOSE i \in hits : \A j \in hits : i <= j]

\* the same with "declared" read as the code reads it: the merged map
\* (devDependencies winning) holds a non-empty version for the package
C5_FirstTruthyMatch ==
    \A r \in Runs :
        pc[r] = "detect_out" =>
            LET deps == analysis[r].dependencies
                devDeps == analysis[r].devDependencies
                declared == {p \in DOMAIN devDeps : devDeps[p] /= ""}
                              \cup {p \in (DOMAIN deps) \ (DOMAIN devDeps) : deps[p] /= ""}
                hits == {i \in 1..Len(C5_TableOrder) : C5_Indicators(C5_TableOrder[i]) \cap declared /= {}}
            IN  /\ analysis[r].framework /= "none"
                /\ hits = {} => analysis[r].framework = "traditional"
                /\ hits /= {} =>
                      analysis[r].framework = C5_TableOrder[CHOOSE i \in hits : \A j \in hits : i <= j]

\* ------------------------------------------------------------------------
\* The structural scan on generated trees
\* ------------------------------------------------------------------------
NoManifest == [kind |-> "invalid", dependencies |-> <<>>, devDependencies |-> <<>>, scripts |-> <<>>]

SpineNames == {"src", "lib", ".git", "node_modules"}

Spines == UNION {[1..k -> SpineNames] : k \in 0..MaxTreeDepth}

\* A tree with one chain of directories (the spine) from the root; when
\* decorated, the root and every directory of the spine also hold a file
\* index.js, a hidden file .env, a directory misc with a file in it and a
\* directory node_modules with a file in it.
TreeOf(spine, decorated, denied) ==
    LET onSpine == Prefixes(spine)
    IN  [dirs |-> (onSpine \ {<<>>})
                    \cup (IF decorated
                          THEN {p \o <<"misc">> : p \in onSpine}
                                 \cup {p \o <<"node_modules">> : p \in onSpine}
                          ELSE {}),
         files |-> IF decorated
                   THEN ({p \o <<"index.js">> : p \in onSpine}
                           \cup {p \o <<".env">> : p \in onSpine}
                           \cup {p \o <<"misc", "index.js">> : p \in onSpine}
                           \cup {p \o <<"node_modules", "pkg.js">> : p \in onSpine})
                   ELSE {},
         denied |-> denied,
         packageJson |-> NoManifest]

ScanTrees ==
    {TreeOf(sp, dec, {}) : sp \in Spines, dec \in BOOLEAN}
      \cup {TreeOf(sp, TRUE, {SubSeq(sp, 1, Min(k, Len(sp)))}) : sp \in Spines \ {<<>>}, k \in 1..2}

ScanPath == <<"scan", 0>>

ScanInit ==
    /\ githubUrl = [r \in Runs |-> ""]
    /\ repoPath = OnlyR1(ScanPath, <<>>)
    /\ tempPath = [r \in Runs |-> <<>>]
    /\ daAnalysis = [r \in Runs |-> <<>>]
    /\ thrown = [r \in Runs |-> <<>>]
    /\ cypressCheck = [r \in Runs |-> <<>>]
    /\ saveIdx = [r \in Runs |-> 0]
    /\ specsSaved = [r \in Runs |-> FALSE]
    /\ specSummary = [r \in Runs |-> <<>>]
    /\ envelope = [r \in Runs |-> <<>>]
    /\ stageLog = [r \in Runs |-> <<>>]
    /\ now = 0
    /\ outputDir = <<>>
    /\ request = [r \in Runs |-> <<>>]
    /\ response = [r \in Runs |-> <<>>]
    /\ generatedSpecs = [r \in Runs |-> <<>>]
    /\ strategy = [r \in Runs |-> <<>>]
    /\ pc = OnlyR1("scan_in", "idle")
    /\ analysis = OnlyR1(NewAnalysis(0), <<>>)
    /\ \E t \in ScanTrees : tempRepos = [p \in {ScanPath} |-> t]

\* analyzeProjectStructure(repoPath, analysis): currentPath = '', depth = 0
ScanStructure(r) ==
    /\ pc[r] = "scan_in"
    /\ analysis' = [analysis EXCEPT ![r].projectStructure =
                        analyzeProjectStructure(tempRepos[repoPath[r]], @, <<>>, 0)]
    /\ pc' = [pc EXCEPT ![r] = "scan_deep"]
    /\ UNCHANGED <<githubUrl, repoPath, tempPath, daAnalysis, thrown, cypressCheck, strategy,
                   generatedSpecs, saveIdx, specsSaved, specSummary, envelope, stageLog>>
    /\ UNCHANGED envVars

\* quickAnalysis: the manifest, the scan started at depth 2, the framework
\* and the entry points; nothing in it throws, so its catch is never entered
quickAnalysis(fs, date) ==
    LET a0 == NewAnalysis(date)
        a1 == analyzePackageJson(fs, a0)
        a2 == [a1 EXCEPT !.projectStructure = analyzeProjectStructure(fs, @, <<>>, 2)]
        a3 == detectFrameworkAndType(a2)
    IN  findEntryPoints(fs, a3)

QuickAnalysis(r) ==
    /\ pc[r] = "scan_in"
    /\ analysis' = [analysis EXCEPT ![r] = quickAnalysis(tempRepos[repoPath[r]], now)]
    /\ pc' = [pc EXCEPT ![r] = "scan_quick"]
    /\ UNCHANGED <<githubUrl, repoPath, tempPath, daAnalysis, thrown, cypressCheck, strategy,
                   generatedSpecs, saveIdx, specsSaved, specSummary, envelope, stageLog>>
    /\ UNCHANGED envVars

ScanNext == \E r \in Runs : ScanStructure(r) \/ QuickAnalysis(r)

ScanSpec == ScanInit /\ [][ScanNext]_vars

\* the tree a scan of run r walked, and the depth it started at
ScannedTree(r) == tempRepos[repoPath[r]]

ScanStartDepth(r) == IF pc[r] = "scan_quick" THEN 2 ELSE 0

\* ---- C7 ----------------------------------------------------------------
\* C7: after the structural scan no projectStructure entry has a path segment
\* equal to node_modules or .git, nor a segment that starts with a dot.
C7_NoExcludedSegment ==
    \A r \in Runs :
        pc[r] \in {"scan_deep", "scan_quick"} =>
            \A i \in 1..Len(analysis[r].projectStructure) :
                LET path == analysis[r].projectStructure[i].path
                IN  \A k \in 1..Len(path) :
                        /\ path[k] /= "node_modules"
                        /\ path[k] /= ".git"
                        /\ path[k] \notin {".env", ".git"}

\* a scan that listed entries of a tree holding .git below the root, hidden
\* files and node_modules directories with files in them
C7_Witness ==
    /\ pc["r1"] = "scan_deep"
    /\ <<"src", ".git", "src">> \in ScannedTree("r1").dirs
    /\ <<"src", "node_modules", "pkg.js">> \in ScannedTree("r1").files
    /\ <<"src", ".env">> \in ScannedTree("r1").files
    /\ \E i \in 1..Len(analysis["r1"].projectStructure) :
          analysis["r1"].projectStructure[i].path = <<"src", "index.js">>

\* ---- C8 ----------------------------------------------------------------
\* C8: the scan emits no directory entry beyond the depth cap (3) unless the
\* entry is flagged important, and a directory at depth 2 or deeper is
\* descended into (an entry below it is emitted) only when its name is on
\* the important-directory list.
C8_DepthRule ==
    \A r \in Runs :
        pc[r] \in {"scan_deep", "scan_quick"} =>
            \A i \in 1..Len(analysis[r].projectStructure) :
                LET e == analysis[r].projectStructure[i]
                    depthOfEntry == ScanStartDepth(r) + Len(e.path) - 1
                IN  /\ (e.type = "directory" /\ e.depth > 3) => e.important
                    /\ e.type = "directory" => e.depth = depthOfEntry
                    /\ (Len(e.path) >= 2 /\ depthOfEntry - 1 >= 2) =>
                          e.path[Len(e.path) - 1] \in
                              {"src", "app", "components", "pages", "public", "tests",
                               "cypress", "e2e", "spec", "features"}

\* a scan from depth 0 that emitted a directory at depth 3 below an important
\* directory, in a tree where a directory that is not important lies at depth
\* 2 with a file in it and a directory lies at depth 4
C8_Witness ==
    /\ pc["r1"] = "scan_deep"
    /\ \E i \in 1..Len(analysis["r1"].projectStructure) :
          /\ analysis["r1"].projectStructure[i].type = "directory"
          /\ analysis["r1"].projectStructure[i].depth = 3
          /\ analysis["r1"].projectStructure[i].path = <<"lib", "lib", "src", "src">>
    /\ <<"lib", "lib", "misc", "index.js">> \in ScannedTree("r1").files
    /\ <<"lib", "lib", "src", "src", "src">> \in ScannedTree("r1").dirs


\* ------------------------------------------------------------------------
\* GitHubHandler
\* ------------------------------------------------------------------------
MaxClock == 1

Urls == {"https://github.com/acme/shop", "git@github.com:acme/tools.git", "not-a-repository"}

\* the URLs a webhook request may carry: also a repository whose manifest
\* does not parse, one without a manifest, and one that declares cypress and
\* a script whose command is not a string
HookUrls ==
    Urls \cup {"https://github.com/acme/legacy", "https://github.com/acme/static",
               "https://github.com/acme/kiosk"}

\* the capture of the two patterns of extractRepoName with '/' replaced by
\* '-', or 'unknown-repo' when neither matches
RepoSlug(url) ==
    CASE url = "https://github.com/acme/shop" -> "acme-shop"
      [] url = "git@github.com:acme/tools.git" -> "acme-tools"
      [] url = "https://github.com/acme/legacy" -> "acme-legacy"
      [] url = "https://github.com/acme/static" -> "acme-static"
      [] url = "https://github.com/acme/kiosk" -> "acme-kiosk"
      [] OTHER -> "unknown-repo"

\* extractRepoName(githubUrl) joined to tempDir; date is Date.now()
extractRepoName(url, date) == <<RepoSlug(url), date>>

StringCommand(text) == [isString |-> TRUE, text |-> text]

\* what the remote behind a URL holds; clonedBy records the invocation whose
\* git clone created the directory
Remote(url, r) ==
    CASE url = "https://github.com/acme/shop" ->
            [dirs |-> {<<"src">>, <<"src", "forms">>},
             files |-> {<<"package.json">>, <<"index.html">>, <<"vite.config.js">>,
                        <<"src", "index.js">>, <<"src", "login.test.js">>,
                        <<"src", "forms", "LoginForm.tsx">>},
             denied |-> {},
             packageJson |->
                [kind |-> "object",
                 dependencies |-> [react |-> "^18.2.0", axios |-> "^1.6.0"],
                 devDependencies |-> [cypress |-> "^13.0.0"],
                 scripts |-> << [name |-> "build", command |-> StringCommand("vite build")],
                                [name |-> "test", command |-> StringCommand("cypress run")] >>],
             clonedBy |-> r]
      [] url = "git@github.com:acme/tools.git" ->
            [dirs |-> {<<"lib">>},
             files |-> {<<"package.json">>, <<"main.js">>, <<"webpack.config.js">>,
                        <<"lib", "index.js">>},
             denied |-> {},
             packageJson |->
                [kind |-> "object",
                 dependencies |-> [vue |-> "^3.4.0"],
                 devDependencies |-> <<>>,
                 scripts |-> << [name |-> "start",
                                 command |-> [isString |-> FALSE, text |-> ""]] >>],
             clonedBy |-> r]
      [] url = "https://github.com/acme/kiosk" ->
            [dirs |-> {<<"src">>},
             files |-> {<<"package.json">>, <<"index.html">>, <<"cypress.config.js">>,
                        <<"src", "main.js">>},
             denied |-> {},
             packageJson |->
                [kind |-> "object",
                 dependencies |-> <<>>,
                 devDependencies |-> [cypress |-> "^13.0.0"],
                 scripts |-> << [name |-> "start",
                                 command |-> [isString |-> FALSE, text |-> ""]] >>],
             clonedBy |-> r]
      [] url = "https://github.com/acme/static" ->
            [dirs |-> {<<"pages">>},
             files |-> {<<"index.html">>, <<"pages", "index.html">>},
             denied |-> {},
             packageJson |-> NoManifest,
             clonedBy |-> r]
      [] OTHER ->
            [dirs |-> {<<"api">>},
             files |-> {<<"package.json">>, <<"index.html">>, <<"index.php">>},
             denied |-> {},
             packageJson |-> NoManifest,
             clonedBy |-> r]

\* only a URL git can resolve can be cloned
CloneCanSucceed(url) == url /= "not-a-repository"

\* what a clone that fails after creating its directory leaves behind
FailedCheckout(r) ==
    [dirs |-> {<<".git">>}, files |-> {}, denied |-> {}, packageJson |-> NoManifest,
     clonedBy |-> r]

\* a repository path that no longer exists: nothing exists below it and
\* listing it fails
MissingTree ==
    [dirs |-> {}, files |-> {}, denied |-> {<<>>}, packageJson |-> NoManifest,
     clonedBy |-> ""]

FsAt(repos, path) == IF path \in DOMAIN repos THEN repos[path] ELSE MissingTree

\* fs.remove(path)
Remove(repos, path) == [p \in (DOMAIN repos) \ {path} |-> repos[p]]

PutTree(repos, path, tree) == [p \in (DOMAIN repos) \cup {path} |-> IF p = path THEN tree ELSE repos[p]]

\* the packages a manifest declares
Declared(fs) ==
    IF fs.packageJson.kind = "object"
    THEN (DOMAIN fs.packageJson.dependencies) \cup (DOMAIN fs.packageJson.devDependencies)
    ELSE {}

InstallOutcomes == {"ok", "error"}

\* installDependencies(repoPath): the result and the tree afterwards. The
\* package manager either installs every declared package or fails before
\* writing anything; on a manifest that does not parse it fails.
installDependencies(fs, present, outcome) ==
    IF ~present \/ ~Exists(fs, <<"package.json">>)
    THEN [success |-> FALSE, fs |-> fs]
    ELSE CASE outcome = "ok" /\ fs.packageJson.kind = "object" ->
                [success |-> TRUE,
                 fs |-> [fs EXCEPT !.dirs = @ \cup {<<"node_modules">>}
                                            \cup {<<"node_modules", d>> : d \in Declared(fs)}]]
           [] OTHER -> [success |-> FALSE, fs |-> fs]

cypressConfigPaths == <<"cypress.config.js", "cypress.config.ts", "cypress.json">>

\* checkCypressSetup(repoPath): reading the manifest is guarded by an inner
\* try, so an unreadable manifest leaves hasPackageJson true and the rest unset
checkCypressSetup(fs) ==
    LET readable == fs.packageJson.kind = "object" /\ <<"package.json">> \notin fs.denied
        allDeps == Spread(fs.packageJson.dependencies, fs.packageJson.devDependencies)
        configs == SelectSeqBy(cypressConfigPaths,
                               {c \in Range(cypressConfigPaths) : Exists(fs, <<c>>)})
    IN  [hasPackageJson |-> Exists(fs, <<"package.json">>),
         hasCypressDependency |->
            Exists(fs, <<"package.json">>) /\ readable /\ HasTruthy(allDeps, "cypress"),
         hasCypressConfig |-> configs /= <<>>,
         cypressConfigPath |-> IF configs /= <<>> THEN configs[1] ELSE Null,
         scripts |-> IF Exists(fs, <<"package.json">>) /\ readable
                     THEN fs.packageJson.scripts ELSE <<>>]

\* the same with the histogram started from the strategy's patterns at zero
generateSpecSummaryPerPattern(specs, s) ==
    [totalSpecs |-> Len(specs),
     specTypes |-> [t \in Range(s.testPatterns) \cup {specs[i].type : i \in 1..Len(specs)} |->
                      Cardinality({i \in 1..Len(specs) : specs[i].type = t})],
     estimatedExecutionTime |-> Len(specs) * 30,
     focusAreas |-> s.focusAreas]

\* generateSpecSummary(specs, strategy)
generateSpecSummary(specs, s) ==
    [totalSpecs |-> Len(specs),
     specTypes |-> [t \in {specs[i].type : i \in 1..Len(specs)} |->
                      Cardinality({i \in 1..Len(specs) : specs[i].type = t})],
     estimatedExecutionTime |-> Len(specs) * 30,
     focusAreas |-> s.focusAreas]


\* ------------------------------------------------------------------------
\* CypressAutonomousAgent.processRepository
\* ------------------------------------------------------------------------
\* the statements of processRepository's try block, in program order
processRepositoryStagesSummaryFirst ==
    <<"acquisition", "analysis", "cypressCheck", "strategy", "generation", "summary", "save">>

processRepositoryStages ==
    <<"acquisition", "analysis", "cypressCheck", "strategy", "generation", "save", "summary">>

\* the statement that follows a stage; the return statement follows the last
StageAfter(stage) ==
    LET i == CHOOSE k \in 1..Len(processRepositoryStages) : processRepositoryStages[k] = stage
    IN  IF i = Len(processRepositoryStages) THEN "return" ELSE processRepositoryStages[i + 1]

Begin(stage) == [stage |-> stage, event |-> "begin"]

End(stage) == [stage |-> stage, event |-> "end"]

Log(r, events) == stageLog' = [stageLog EXCEPT ![r] = @ \o events]

Goto(r, label) == pc' = [pc EXCEPT ![r] = label]

\* processRepository(githubUrl) is called: tempPath = null, cloneAndAnalyze begins
Start(r) ==
    /\ pc[r] = "idle"
    /\ \E url \in Urls : githubUrl' = [githubUrl EXCEPT ![r] = url]
    /\ Goto(r, "acquisition")
    /\ Log(r, <<Begin("acquisition")>>)
    /\ UNCHANGED <<repoPath, tempPath, daAnalysis, analysis, thrown, cypressCheck, strategy,
                   generatedSpecs, saveIdx, specsSaved, specSummary, envelope>>
    /\ UNCHANGED envVars

\* cloneAndAnalyze: the name is derived from the URL and the clock, and a
\* directory of that name is removed; the clock may have advanced since it
\* was last read
CleanExisting(r) ==
    /\ pc[r] = "acquisition"
    /\ \E t \in {now, now + 1} :
        /\ t <= MaxClock
        /\ now' = t
        /\ repoPath' = [repoPath EXCEPT ![r] = extractRepoName(githubUrl[r], t)]
        /\ tempRepos' = Remove(tempRepos, extractRepoName(githubUrl[r], t))
    /\ Goto(r, "git_clone")
    /\ UNCHANGED <<githubUrl, tempPath, daAnalysis, analysis, thrown, cypressCheck, strategy,
                   generatedSpecs, saveIdx, specsSaved, specSummary, envelope, stageLog,
                   outputDir>>
    /\ UNCHANGED hookVars

\* git.clone(githubUrl, repoPath) succeeds: git clones only into a path that
\* does not exist
GitClone(r) ==
    /\ pc[r] = "git_clone"
    /\ CloneCanSucceed(githubUrl[r])
    /\ repoPath[r] \notin DOMAIN tempRepos
    /\ tempRepos' = PutTree(tempRepos, repoPath[r], Remote(githubUrl[r], r))
    /\ Goto(r, "install")
    /\ UNCHANGED <<githubUrl, repoPath, tempPath, daAnalysis, analysis, thrown, cypressCheck,
                   strategy, generatedSpecs, saveIdx, specsSaved, specSummary, envelope,
                   stageLog, now, outputDir>>
    /\ UNCHANGED hookVars

\* git.clone rejects. git leaves the path as it was, or, when it fails after
\* having created the directory (a checkout that fails), leaves the directory.
\* cloneAndAnalyze's catch finds its own tempPath null, removes nothing and
\* returns { success: false }; processRepository throws 'Error clonando: ...'
\* with its tempPath still null.
GitCloneFails(r) ==
    /\ pc[r] = "git_clone"
    /\ \E left \in BOOLEAN :
        tempRepos' = IF left /\ repoPath[r] \notin DOMAIN tempRepos
                     THEN PutTree(tempRepos, repoPath[r], FailedCheckout(r))
                     ELSE tempRepos
    /\ thrown' = [thrown EXCEPT ![r] = [stage |-> "acquisition", message |-> "Error clonando"]]
    /\ Goto(r, "catch")
    /\ UNCHANGED <<githubUrl, repoPath, tempPath, daAnalysis, analysis, cypressCheck,
                   strategy, generatedSpecs, saveIdx, specsSaved, specSummary, envelope,
                   stageLog, now, outputDir>>
    /\ UNCHANGED hookVars

\* installDependencies, then cloneAndAnalyze returns { success: true } whatever
\* the installation did, and processRepository sets tempPath
Install(r) ==
    /\ pc[r] = "install"
    /\ \E outcome \in InstallOutcomes :
        LET result == installDependencies(FsAt(tempRepos, repoPath[r]),
                                          repoPath[r] \in DOMAIN tempRepos, outcome)
        IN  tempRepos' = IF repoPath[r] \in DOMAIN tempRepos
                         THEN PutTree(tempRepos, repoPath[r], result.fs)
                         ELSE tempRepos
    /\ tempPath' = [tempPath EXCEPT ![r] = repoPath[r]]
    /\ Goto(r, StageAfter("acquisition"))
    /\ Log(r, <<End("acquisition")>>)
    /\ UNCHANGED <<githubUrl, repoPath, daAnalysis, analysis, thrown, cypressCheck,
                   strategy, generatedSpecs, saveIdx, specsSaved, specSummary, envelope,
                   now, outputDir>>
    /\ UNCHANGED hookVars


\* ------------------------------------------------------------------------
\* ProjectAnalyzer.deepAnalysis, one action per awaited sub-step
\* ------------------------------------------------------------------------
RepoFs(r) == FsAt(tempRepos, repoPath[r])

DaFrame ==
    UNCHANGED <<githubUrl, repoPath, tempPath, analysis, thrown, cypressCheck, strategy,
                generatedSpecs, saveIdx, specsSaved, specSummary, envelope, stageLog>>

\* the record is created and analyzePackageJson runs
DaPackageJson(r) ==
    /\ pc[r] = "analysis"
    /\ daAnalysis' = [daAnalysis EXCEPT ![r] = analyzePackageJson(RepoFs(r), NewAnalysis(now))]
    /\ Goto(r, "da_installed")
    /\ Log(r, <<Begin("analysis")>>)
    /\ UNCHANGED <<githubUrl, repoPath, tempPath, analysis, thrown, cypressCheck, strategy,
                   generatedSpecs, saveIdx, specsSaved, specSummary, envelope>>
    /\ UNCHANGED envVars

DaInstalledDependencies(r) ==
    /\ pc[r] = "da_installed"
    /\ daAnalysis' = [daAnalysis EXCEPT ![r] = analyzeInstalledDependencies(RepoFs(r), @)]
    /\ Goto(r, "da_structure")
    /\ DaFrame
    /\ UNCHANGED envVars

DaProjectStructure(r) ==
    /\ pc[r] = "da_structure"
    /\ daAnalysis' = [daAnalysis EXCEPT ![r].projectStructure =
                          analyzeProjectStructure(RepoFs(r), @, <<>>, 0)]
    /\ Goto(r, "da_detect")
    /\ DaFrame
    /\ UNCHANGED envVars

\* detectFrameworkAndType and findEntryPoints: no await lies between them
DaDetectAndEntryPoints(r) ==
    /\ pc[r] = "da_detect"
    /\ daAnalysis' = [daAnalysis EXCEPT ![r] =
                          findEntryPoints(RepoFs(r), detectFrameworkAndType(@))]
    /\ Goto(r, "da_tests")
    /\ DaFrame
    /\ UNCHANGED envVars

DaExistingTests(r) ==
    /\ pc[r] = "da_tests"
    /\ daAnalysis' = [daAnalysis EXCEPT ![r] = findExistingTests(RepoFs(r), @)]
    /\ Goto(r, "da_build")
    /\ DaFrame
    /\ UNCHANGED envVars

\* analyzeBuildTools completes and deepAnalysis returns its record, which
\* ends the life of its local
DaBuildTools(r) ==
    /\ pc[r] = "da_build"
    /\ ~analyzeBuildToolsThrows(daAnalysis[r])
    /\ daAnalysis' = [daAnalysis EXCEPT ![r] = <<>>]
    /\ analysis' = [analysis EXCEPT ![r] = analyzeBuildTools(RepoFs(r), daAnalysis[r])]
    /\ Goto(r, StageAfter("analysis"))
    /\ Log(r, <<End("analysis")>>)
    /\ UNCHANGED <<githubUrl, repoPath, tempPath, thrown, cypressCheck, strategy,
                   generatedSpecs, saveIdx, specsSaved, specSummary, envelope>>
    /\ UNCHANGED envVars

\* analyzeBuildTools throws after its first assignment; the exception is in
\* flight inside deepAnalysis's try. thrown keeps the record as it stood
\* before the sub-step and as it stands at the throw.
DaBuildToolsThrows(r) ==
    /\ pc[r] = "da_build"
    /\ analyzeBuildToolsThrows(daAnalysis[r])
    /\ daAnalysis' = [daAnalysis EXCEPT ![r] = analyzeBuildTools(RepoFs(r), @)]
    /\ thrown' = [thrown EXCEPT ![r] =
                     [stage |-> "analysis", message |-> "cmd.includes is not a function",
                      before |-> daAnalysis[r],
                      atThrow |-> analyzeBuildTools(RepoFs(r), daAnalysis[r])]]
    /\ Goto(r, "da_catch")
    /\ UNCHANGED <<githubUrl, repoPath, tempPath, analysis, cypressCheck, strategy,
                   generatedSpecs, saveIdx, specsSaved, specSummary, envelope, stageLog>>
    /\ UNCHANGED envVars

\* deepAnalysis's catch block: what it does with the record
deepAnalysisCatchRethrows(a) == [raises |-> TRUE, value |-> a]

deepAnalysisCatch(a) == [raises |-> FALSE, value |-> a]

\* deepAnalysis(repoPath) on a tree that stays as it is during the call: the
\* sub-steps in order; a throw of analyzeBuildTools ends in the catch block
deepAnalysis(fs, date) ==
    LET a1 == analyzePackageJson(fs, NewAnalysis(date))
        a2 == analyzeInstalledDependencies(fs, a1)
        a3 == [a2 EXCEPT !.projectStructure = analyzeProjectStructure(fs, @, <<>>, 0)]
        a4 == findEntryPoints(fs, detectFrameworkAndType(a3))
        a5 == findExistingTests(fs, a4)
    IN  IF analyzeBuildToolsThrows(a5)
        THEN deepAnalysisCatch(analyzeBuildTools(fs, a5)).value
        ELSE analyzeBuildTools(fs, a5)

DaCatch(r) ==
    /\ pc[r] = "da_catch"
    /\ LET out == deepAnalysisCatch(daAnalysis[r])
       IN  IF out.raises
           THEN /\ Goto(r, "catch")
                /\ UNCHANGED <<analysis, stageLog>>
           ELSE /\ analysis' = [analysis EXCEPT ![r] = out.value]
                /\ Goto(r, StageAfter("analysis"))
                /\ Log(r, <<End("analysis")>>)
    /\ daAnalysis' = [daAnalysis EXCEPT ![r] = <<>>]
    /\ UNCHANGED <<githubUrl, repoPath, tempPath, thrown, cypressCheck, strategy,
                   generatedSpecs, saveIdx, specsSaved, specSummary, envelope>>
    /\ UNCHANGED envVars


\* ------------------------------------------------------------------------
\* The stages after the analysis
\* ------------------------------------------------------------------------
CypressCheck(r) ==
    /\ pc[r] = "cypressCheck"
    /\ cypressCheck' = [cypressCheck EXCEPT ![r] = checkCypressSetup(RepoFs(r))]
    /\ Goto(r, StageAfter("cypressCheck"))
    /\ Log(r, <<Begin("cypressCheck"), End("cypressCheck")>>)
    /\ UNCHANGED <<githubUrl, repoPath, tempPath, daAnalysis, analysis, thrown, strategy,
                   generatedSpecs, saveIdx, specsSaved, specSummary, envelope>>
    /\ UNCHANGED envVars

GenerateStrategy(r) ==
    /\ pc[r] = "strategy"
    /\ strategy' = [strategy EXCEPT ![r] = generateStrategy(analysis[r])]
    /\ Goto(r, StageAfter("strategy"))
    /\ Log(r, <<Begin("strategy"), End("strategy")>>)
    /\ UNCHANGED <<githubUrl, repoPath, tempPath, daAnalysis, analysis, thrown, cypressCheck,
                   generatedSpecs, saveIdx, specsSaved, specSummary, envelope>>
    /\ UNCHANGED envVars

GenerateTestSpecs(r) ==
    /\ pc[r] = "generation"
    /\ generatedSpecs' = [generatedSpecs EXCEPT ![r] =
                              generateTestSpecs(analysis[r], strategy[r], now)]
    /\ Goto(r, StageAfter("generation"))
    /\ Log(r, <<Begin("generation"), End("generation")>>)
    /\ UNCHANGED <<githubUrl, repoPath, tempPath, daAnalysis, analysis, thrown, cypressCheck,
                   strategy, saveIdx, specsSaved, specSummary, envelope>>
    /\ UNCHANGED envVars

\* saveSpecsToDisk: fs.ensureDir(outputPath) succeeds
\* the same with the directory emptied (emptyDir for ensureDir)
SaveEnsureDirEmpties(r) ==
    /\ pc[r] = "save"
    /\ saveIdx' = [saveIdx EXCEPT ![r] = 1]
    /\ outputDir' = <<>>
    /\ Goto(r, "save_write")
    /\ Log(r, <<Begin("save")>>)
    /\ UNCHANGED <<githubUrl, repoPath, tempPath, daAnalysis, analysis, thrown, cypressCheck,
                   strategy, generatedSpecs, specsSaved, specSummary, envelope>>
    /\ UNCHANGED <<now, tempRepos, request, response>>

SaveEnsureDir(r) ==
    /\ pc[r] = "save"
    /\ saveIdx' = [saveIdx EXCEPT ![r] = 1]
    /\ Goto(r, "save_write")
    /\ Log(r, <<Begin("save")>>)
    /\ UNCHANGED <<githubUrl, repoPath, tempPath, daAnalysis, analysis, thrown, cypressCheck,
                   strategy, generatedSpecs, specsSaved, specSummary, envelope>>
    /\ UNCHANGED envVars

\* fs.writeFile(specPath, spec.content) succeeds; after the last spec
\* saveSpecsToDisk returns true
\* the same with a write that leaves an existing file alone (flag 'wx')
SaveWriteFileKeepsExisting(r) ==
    /\ pc[r] = "save_write"
    /\ LET spec == generatedSpecs[r][saveIdx[r]]
       IN  outputDir' = IF spec.name \in DOMAIN outputDir THEN outputDir
                        ELSE PutTree(outputDir, spec.name, spec.content)
    /\ IF saveIdx[r] = Len(generatedSpecs[r])
       THEN /\ specsSaved' = [specsSaved EXCEPT ![r] = TRUE]
            /\ Goto(r, StageAfter("save"))
            /\ Log(r, <<End("save")>>)
            /\ UNCHANGED saveIdx
       ELSE /\ saveIdx' = [saveIdx EXCEPT ![r] = @ + 1]
            /\ UNCHANGED <<pc, specsSaved, stageLog>>
    /\ UNCHANGED <<githubUrl, repoPath, tempPath, daAnalysis, analysis, thrown, cypressCheck,
                   strategy, generatedSpecs, specSummary, envelope, now, tempRepos>>
    /\ UNCHANGED hookVars

SaveWriteFile(r) ==
    /\ pc[r] = "save_write"
    /\ LET spec == generatedSpecs[r][saveIdx[r]]
       IN  outputDir' = PutTree(outputDir, spec.name, spec.content)
    /\ IF saveIdx[r] = Len(generatedSpecs[r])
       THEN /\ specsSaved' = [specsSaved EXCEPT ![r] = TRUE]
            /\ Goto(r, StageAfter("save"))
            /\ Log(r, <<End("save")>>)
            /\ UNCHANGED saveIdx
       ELSE /\ saveIdx' = [saveIdx EXCEPT ![r] = @ + 1]
            /\ UNCHANGED <<pc, specsSaved, stageLog>>
    /\ UNCHANGED <<githubUrl, repoPath, tempPath, daAnalysis, analysis, thrown, cypressCheck,
                   strategy, generatedSpecs, specSummary, envelope, now, tempRepos>>
    /\ UNCHANGED hookVars

\* the same with the files written so far removed again
SaveFailsRollsBack(r) ==
    /\ pc[r] \in {"save", "save_write"}
    /\ specsSaved' = [specsSaved EXCEPT ![r] = FALSE]
    /\ outputDir' = <<>>
    /\ Goto(r, StageAfter("save"))
    /\ Log(r, IF pc[r] = "save" THEN <<Begin("save"), End("save")>> ELSE <<End("save")>>)
    /\ UNCHANGED <<githubUrl, repoPath, tempPath, daAnalysis, analysis, thrown, cypressCheck,
                   strategy, generatedSpecs, saveIdx, specSummary, envelope>>
    /\ UNCHANGED <<now, tempRepos, request, response>>

\* fs.ensureDir or fs.writeFile rejects: saveSpecsToDisk's catch returns
\* false, and what was written stays
SaveFails(r) ==
    /\ pc[r] \in {"save", "save_write"}
    /\ specsSaved' = [specsSaved EXCEPT ![r] = FALSE]
    /\ Goto(r, StageAfter("save"))
    /\ Log(r, IF pc[r] = "save" THEN <<Begin("save"), End("save")>> ELSE <<End("save")>>)
    /\ UNCHANGED <<githubUrl, repoPath, tempPath, daAnalysis, analysis, thrown, cypressCheck,
                   strategy, generatedSpecs, saveIdx, specSummary, envelope>>
    /\ UNCHANGED envVars

Summary(r) ==
    /\ pc[r] = "summary"
    /\ specSummary' = [specSummary EXCEPT ![r] =
                           generateSpecSummary(generatedSpecs[r], strategy[r])]
    /\ Goto(r, StageAfter("summary"))
    /\ Log(r, <<Begin("summary"), End("summary")>>)
    /\ UNCHANGED <<githubUrl, repoPath, tempPath, daAnalysis, analysis, thrown, cypressCheck,
                   strategy, generatedSpecs, saveIdx, specsSaved, envelope>>
    /\ UNCHANGED envVars

\* the return statement of the try block; the locals of the call end with it
Return(r) ==
    /\ pc[r] = "return"
    /\ envelope' = [envelope EXCEPT ![r] =
                       [success |-> TRUE,
                        repository |-> githubUrl[r],
                        analysis |-> analysis[r],
                        cypressCheck |-> cypressCheck[r],
                        strategy |-> strategy[r],
                        generatedSpecs |-> generatedSpecs[r],
                        specSummary |-> specSummary[r],
                        specsSaved |-> specsSaved[r],
                        outputPath |-> "generated-specs",
                        tempPath |-> tempPath[r],
                        timestamp |-> now]]
    /\ tempPath' = [tempPath EXCEPT ![r] = <<>>]
    /\ analysis' = [analysis EXCEPT ![r] = <<>>]
    /\ cypressCheck' = [cypressCheck EXCEPT ![r] = <<>>]
    /\ strategy' = [strategy EXCEPT ![r] = <<>>]
    /\ generatedSpecs' = [generatedSpecs EXCEPT ![r] = <<>>]
    /\ specSummary' = [specSummary EXCEPT ![r] = <<>>]
    /\ specsSaved' = [specsSaved EXCEPT ![r] = FALSE]
    /\ saveIdx' = [saveIdx EXCEPT ![r] = 0]
    /\ Goto(r, "done")
    /\ UNCHANGED <<githubUrl, repoPath, daAnalysis, thrown, stageLog>>
    /\ UNCHANGED envVars

\* cleanup(tempPath): every tempPath lies under tempDir
cleanup(repos, path) == Remove(repos, path)

\* the catch block of processRepository
Catch(r) ==
    /\ pc[r] = "catch"
    /\ tempRepos' = IF tempPath[r] /= <<>> THEN cleanup(tempRepos, tempPath[r]) ELSE tempRepos
    /\ envelope' = [envelope EXCEPT ![r] =
                       [success |-> FALSE,
                        error |-> thrown[r].message,
                        repository |-> githubUrl[r]]]
    /\ Goto(r, "done")
    /\ UNCHANGED <<githubUrl, repoPath, tempPath, daAnalysis, analysis, thrown, cypressCheck,
                   strategy, generatedSpecs, saveIdx, specsSaved, specSummary, stageLog,
                   now, outputDir>>
    /\ UNCHANGED hookVars

Init ==
    /\ RestIdle
    /\ pc = [r \in Runs |-> "idle"]
    /\ analysis = [r \in Runs |-> <<>>]
    /\ strategy = [r \in Runs |-> <<>>]
    /\ generatedSpecs = [r \in Runs |-> <<>>]

Next ==
    \E r \in Runs :
        \/ Start(r)
        \/ CleanExisting(r)
        \/ GitClone(r)
        \/ GitCloneFails(r)
        \/ Install(r)
        \/ DaPackageJson(r)
        \/ DaInstalledDependencies(r)
        \/ DaProjectStructure(r)
        \/ DaDetectAndEntryPoints(r)
        \/ DaExistingTests(r)
        \/ DaBuildTools(r)
        \/ DaBuildToolsThrows(r)
        \/ DaCatch(r)
        \/ CypressCheck(r)
        \/ GenerateStrategy(r)
        \/ GenerateTestSpecs(r)
        \/ SaveEnsureDir(r)
        \/ SaveWriteFile(r)
        \/ SaveFails(r)
        \/ Summary(r)
        \/ Return(r)
        \/ Catch(r)

Spec == Init /\ [][Next]_vars


\* ------------------------------------------------------------------------
\* Claims about deepAnalysis and processRepository
\* ------------------------------------------------------------------------
\* the labels at which deepAnalysis has returned to processRepository
AfterAnalysis == {"cypressCheck", "strategy", "generation", "save", "save_write",
                  "summary", "return", "done"}

\* the record deepAnalysis returned to run r
C6_Returned(r) == IF pc[r] = "done" THEN envelope[r].analysis ELSE analysis[r]

C9_Order ==
    <<Begin("acquisition"), End("acquisition"), Begin("analysis"), End("analysis"),
      Begin("strategy"), End("strategy"), Begin("generation"), End("generation"),
      Begin("save"), End("save"), Begin("summary"), End("summary")>>

C9_IsPrefix(s, t) == Len(s) <= Len(t) /\ s = SubSeq(t, 1, Len(s))

\* C9: in every run the stages happen in one fixed order, without overlap
\* and without repetition: the begin and end events of acquisition, analysis,
\* strategy generation, spec generation, save and summary that a run has
\* logged are always an initial part of that one sequence, and a run that
\* returned a success envelope has logged all of it.
C9_FixedOrder ==
    \A r \in Runs :
        LET named == SelectSeq(stageLog[r], LAMBDA e : e.stage /= "cypressCheck")
        IN  /\ C9_IsPrefix(named, C9_Order)
            /\ (envelope[r] /= <<>> /\ envelope[r].success) => named = C9_Order

\* one run has gone through all six stages and returned while the other run
\* is in the middle of its own analysis
C9_Witness ==
    \E r \in Runs, q \in Runs :
        /\ r /= q
        /\ envelope[r] /= <<>>
        /\ envelope[r].success
        /\ Len(stageLog[r]) = Len(C9_Order) + 2
        /\ pc[q] = "da_tests"

\* C10: whenever processRepository has caught an exception it has returned
\* rather than rethrown, the directory this run's clone created is gone, and
\* the envelope holds success = false, the error message and the githubUrl
\* and nothing else.
C10_FailureCleansUp ==
    \A r \in Runs :
        (pc[r] = "done" /\ ~envelope[r].success) =>
            /\ DOMAIN envelope[r] = {"success", "error", "repository"}
            /\ envelope[r].error = thrown[r].message
            /\ envelope[r].repository = githubUrl[r]
            /\ ~(repoPath[r] \in DOMAIN tempRepos /\ tempRepos[repoPath[r]].clonedBy = r)


\* the save step of run r has ended with saveSpecsToDisk reporting a failure
C11_SaveFailed(r) ==
    /\ End("save") \in Range(stageLog[r])
    /\ pc[r] \in {"summary", "return", "done"}
    /\ ~(IF pc[r] = "done" /\ envelope[r].success THEN envelope[r].specsSaved ELSE specsSaved[r])

\* C11: a save failure short-circuits the controller: once writing a
\* generated artifact has failed, the run computes no summary, the envelope
\* it returns has success = false, and the run's clone under the temp root
\* is removed, as after an acquisition failure.
C11_SaveFailureShortCircuits ==
    \A r \in Runs :
        C11_SaveFailed(r) =>
            /\ pc[r] = "done"
            /\ ~envelope[r].success
            /\ repoPath[r] \notin DOMAIN tempRepos


\* ------------------------------------------------------------------------
\* The webhook: POST /webhook/cypress-agent
\* ------------------------------------------------------------------------
\* the request bodies: a githubUrl, an empty githubUrl, or none
Bodies ==
    {[githubUrl |-> u, projectName |-> "demo"] : u \in HookUrls \cup {""}}
      \cup {[projectName |-> "demo"]}

\* !githubUrl
MissingUrl(body) == IF "githubUrl" \in DOMAIN body THEN ~Truthy(body.githubUrl) ELSE TRUE

\* the handler validates the body and answers 400 without calling the agent
RejectRequest(r) ==
    /\ pc[r] = "idle"
    /\ \E body \in Bodies :
        /\ MissingUrl(body)
        /\ request' = [request EXCEPT ![r] = body]
    /\ response' = [response EXCEPT ![r] =
                       [status |-> 400, success |-> FALSE, error |-> "Se requiere githubUrl"]]
    /\ Goto(r, "responded")
    /\ UNCHANGED <<githubUrl, repoPath, tempPath, daAnalysis, analysis, thrown, cypressCheck,
                   strategy, generatedSpecs, saveIdx, specsSaved, specSummary, envelope,
                   stageLog, now, tempRepos, outputDir>>

\* the handler calls agent.processRepository(githubUrl)
AcceptRequest(r) ==
    /\ pc[r] = "idle"
    /\ \E body \in Bodies :
        /\ ~MissingUrl(body)
        /\ request' = [request EXCEPT ![r] = body]
        /\ githubUrl' = [githubUrl EXCEPT ![r] = body.githubUrl]
    /\ Goto(r, "acquisition")
    /\ Log(r, <<Begin("acquisition")>>)
    /\ UNCHANGED <<repoPath, tempPath, daAnalysis, analysis, thrown, cypressCheck, strategy,
                   generatedSpecs, saveIdx, specsSaved, specSummary, envelope, response,
                   now, tempRepos, outputDir>>

\* getGeneratedFiles(outputPath): one entry per *.cy.js file of the directory
\* as it is when the response is built, here in the order of the indices;
\* lines is the five comment lines, the empty line and the template's lines
RECURSIVE FilesInOrder(_, _)
FilesInOrder(dir, names) ==
    IF names = {} THEN <<>>
    ELSE LET first == CHOOSE x \in names : \A y \in names : x[2] <= y[2]
         IN  <<[name |-> first, lines |-> 6 + Len(dir[first].body)]>>
                \o FilesInOrder(dir, names \ {first})

getGeneratedFiles(dir) == FilesInOrder(dir, DOMAIN dir)

\* the response built from processRepository's result and sent with res.json,
\* which leaves the status at 200; building it raises nothing, so the
\* handler's catch (status 500) is not entered
n8nResponse(result, files) ==
    [status |-> 200,
     success |-> result.success,
     output |-> IF result.success
                THEN [projectAnalysis |->
                         [type |-> result.analysis.projectType,
                          framework |-> result.analysis.framework,
                          hasCypress |-> result.cypressCheck.hasCypressDependency],
                      generatedSpecs |->
                         [total |-> result.specSummary.totalSpecs,
                          types |-> result.specSummary.specTypes,
                          estimatedTime |-> result.specSummary.estimatedExecutionTime],
                      outputPath |-> result.outputPath,
                      files |-> files]
                ELSE [error |-> result.error]]

Respond(r) ==
    /\ pc[r] = "done"
    /\ request[r] /= <<>>
    /\ response' = [response EXCEPT ![r] = n8nResponse(envelope[r], getGeneratedFiles(outputDir))]
    /\ Goto(r, "responded")
    /\ UNCHANGED <<githubUrl, repoPath, tempPath, daAnalysis, analysis, thrown, cypressCheck,
                   strategy, generatedSpecs, saveIdx, specsSaved, specSummary, envelope,
                   stageLog, request, now, tempRepos, outputDir>>

\* every step of processRepository after its call
Pipeline(r) ==
    \/ CleanExisting(r)
    \/ GitClone(r)
    \/ GitCloneFails(r)
    \/ Install(r)
    \/ DaPackageJson(r)
    \/ DaInstalledDependencies(r)
    \/ DaProjectStructure(r)
    \/ DaDetectAndEntryPoints(r)
    \/ DaExistingTests(r)
    \/ DaBuildTools(r)
    \/ DaBuildToolsThrows(r)
    \/ DaCatch(r)
    \/ CypressCheck(r)
    \/ GenerateStrategy(r)
    \/ GenerateTestSpecs(r)
    \/ SaveEnsureDir(r)
    \/ SaveWriteFile(r)
    \/ SaveFails(r)
    \/ Summary(r)
    \/ Return(r)
    \/ Catch(r)

\* one request, from its receipt to its response
HookNext ==
    \E r \in {"r1"} : RejectRequest(r) \/ AcceptRequest(r) \/ Pipeline(r) \/ Respond(r)

HookSpec == Init /\ [][HookNext]_vars

\* C12: the handler answers 400 when the body carries no githubUrl, and has
\* then not started the pipeline; it answers 500 whenever processRepository
\* reported success = false.
C12_StatusCodes ==
    \A r \in Runs :
        response[r] /= <<>> =>
            /\ MissingUrl(request[r]) => (response[r].status = 400 /\ stageLog[r] = <<>>)
            /\ (envelope[r] /= <<>> /\ ~envelope[r].success) => response[r].status = 500

\* ------------------------------------------------------------------------
\* Detection, strategy, generation and summary on the same record, twice
\* ------------------------------------------------------------------------
MaxPlanStructure == 26

PlanDeps ==
    {<<>>, [react |-> "^18.0.0"], [react |-> "^18.0.0", axios |-> "^1.6.0"], [axios |-> ""]}

\* the record as deepAnalysis holds it when it calls detectFrameworkAndType,
\* with the entry points findEntryPoints adds afterwards (detection does not
\* read them)
PreAnalysis(deps, structure, e) ==
    [NewAnalysis(0) EXCEPT
        !.hasPackageJson = TRUE,
        !.dependencies = deps,
        !.projectStructure = structure,
        !.entryPoints = [i \in 1..e |-> [path |-> possibleEntries[i], exists |-> TRUE]]]

PlanAnalyses ==
    {PreAnalysis(d, [i \in 1..l |-> FillerEntry], e) :
        d \in PlanDeps, l \in 0..MaxPlanStructure, e \in 0..2}
    \cup
    {PreAnalysis(d, SignalEntries(sig), e) :
        d \in PlanDeps, sig \in SUBSET {"forms", "auth", "api"}, e \in 0..2}

\* both calls are given the same arguments: an Analysis to detect and plan
\* for, or an (Analysis, Strategy) pair handed to the generator directly
PlanInit ==
    /\ RestIdle
    /\ generatedSpecs = [r \in Runs |-> <<>>]
    /\ \/ /\ pc = [r \in Runs |-> "plan_analysis"]
          /\ \E a \in PlanAnalyses : analysis = [r \in Runs |-> a]
          /\ strategy = [r \in Runs |-> <<>>]
       \/ /\ pc = [r \in Runs |-> "fn_direct"]
          /\ \E f \in {"react", "svelte"} : analysis = [r \in Runs |-> AnalysisOf(f, <<>>, <<>>, 0)]
          /\ \E s \in DirectStrategies : strategy = [r \in Runs |-> s]

PlanDetect(r) ==
    /\ pc[r] = "plan_analysis"
    /\ analysis' = [analysis EXCEPT ![r] = detectFrameworkAndType(analysis[r])]
    /\ pc' = [pc EXCEPT ![r] = "fn_analysis"]
    /\ UNCHANGED <<githubUrl, repoPath, tempPath, daAnalysis, thrown, cypressCheck, strategy,
                   generatedSpecs, saveIdx, specsSaved, specSummary, envelope, stageLog>>
    /\ UNCHANGED envVars

PlanSummary(r) ==
    /\ pc[r] \in {"fn_specs", "fn_direct_specs"}
    /\ specSummary' = [specSummary EXCEPT ![r] =
                           generateSpecSummary(generatedSpecs[r], strategy[r])]
    /\ pc' = [pc EXCEPT ![r] = IF pc[r] = "fn_specs" THEN "fn_summary" ELSE "fn_direct_summary"]
    /\ UNCHANGED <<githubUrl, repoPath, tempPath, daAnalysis, analysis, thrown, cypressCheck,
                   strategy, generatedSpecs, saveIdx, specsSaved, envelope, stageLog>>
    /\ UNCHANGED envVars

\* time passes between the two calls
PlanTick ==
    /\ now < MaxClock
    /\ now' = now + 1
    /\ UNCHANGED runVars
    /\ UNCHANGED <<tempRepos, outputDir, request, response>>

PlanNext ==
    \/ PlanTick
    \/ \E r \in Runs :
          PlanDetect(r) \/ FnGenerateStrategy(r) \/ FnGenerateTestSpecs(r) \/ PlanSummary(r)

PlanSpec == PlanInit /\ [][PlanNext]_vars

\* the strategy of run r exists and was planned from its analysis
Planned(r) == pc[r] \in {"fn_strategy", "fn_specs", "fn_summary"}

\* ---- C13 ---------------------------------------------------------------
\* the case of C13: react is the one declared dependency, no path carries a
\* form, auth or api signal, and there is exactly one entry point
C13_Case(a) ==
    /\ DOMAIN a.dependencies = {"react"}
    /\ Truthy(a.dependencies["react"])
    /\ \A i \in 1..Len(a.projectStructure) :
          ~PathIncludes(a.projectStructure[i].path, FormNames \cup AuthNames \cup ApiNames)
    /\ Len(a.entryPoints) = 1

\* C13 (as the code has it): in that case the framework is react and the
\* focus areas are [smoke-testing, critical-flows]; recommendedSpecs is 3 as
\* long as the structure has fewer than 25 entries, and at least 4 from 25
\* entries on (floor(3.5 + min(L/50, 3))).
C13_ReactDefaults ==
    \A r \in Runs :
        (Planned(r) /\ C13_Case(analysis[r])) =>
            /\ analysis[r].framework = "react"
            /\ strategy[r].framework = "react"
            /\ strategy[r].focusAreas = <<"smoke-testing", "critical-flows">>
            /\ Len(analysis[r].projectStructure) < 25 => strategy[r].recommendedSpecs = 3
            /\ Len(analysis[r].projectStructure) >= 25 => strategy[r].recommendedSpecs >= 4

\* the largest structure that still gives three specs was planned
C13_Witness ==
    /\ pc["r1"] = "fn_strategy"
    /\ C13_Case(analysis["r1"])
    /\ Len(analysis["r1"].projectStructure) = 24
    /\ strategy["r1"].framework = "react"
    /\ strategy["r1"].recommendedSpecs = 3

\* C13 as stated: the same outcome with recommendedSpecs = 3 whatever the
\* number of projectStructure entries
C13_ThreeSpecsWhateverTheSize ==
    \A r \in Runs :
        (Planned(r) /\ C13_Case(analysis[r])) =>
            /\ strategy[r].framework = "react"
            /\ strategy[r].focusAreas = <<"smoke-testing", "critical-flows">>
            /\ strategy[r].recommendedSpecs = 3

\* ---- C14 ---------------------------------------------------------------
\* C14: when the manifest declares axios as a dependency, testPatterns
\* contain api-testing; and whenever recommendedSpecs >= |testPatterns|,
\* every pattern of testPatterns (api-testing among them) is the type of at
\* least one generated spec.
C14_AxiosGivesApiTesting ==
    \A r \in Runs :
        (Planned(r) /\ "axios" \in DOMAIN analysis[r].dependencies) =>
            /\ "api-testing" \in Range(strategy[r].testPatterns)
            /\ (/\ pc[r] \in {"fn_specs", "fn_summary"}
                /\ strategy[r].recommendedSpecs >= Len(strategy[r].testPatterns)) =>
                  \A p \in Range(strategy[r].testPatterns) \cup {"api-testing"} :
                      \E i \in 1..Len(generatedSpecs[r]) : generatedSpecs[r][i].type = p

\* ---- C15 ---------------------------------------------------------------
\* the manifest of a checkout is missing, or readJson fails on it
C15_NoUsableManifest(fs) ==
    \/ ~Exists(fs, <<"package.json">>)
    \/ fs.packageJson.kind = "invalid"
    \/ <<"package.json">> \in fs.denied

C15_NoManifestProfile(a) ==
    /\ ~a.hasPackageJson
    /\ a.dependencies = <<>>
    /\ a.devDependencies = <<>>

\* C15: when the manifest of the cloned repository is missing or cannot be
\* parsed, the Analysis has hasPackageJson = false and empty dependencies
\* and devDependencies, its framework resolves to traditional, no stage after
\* the acquisition fails, and the finished run returns success = true with
\* the traditional strategy profile.
C15_MissingManifest ==
    \A r \in Runs :
        (End("acquisition") \in Range(stageLog[r]) /\ C15_NoUsableManifest(RepoFs(r))) =>
            /\ pc[r] /= "catch"
            /\ daAnalysis[r] /= <<>> =>
                  /\ C15_NoManifestProfile(daAnalysis[r])
                  /\ pc[r] \in {"da_tests", "da_build"} => daAnalysis[r].framework = "traditional"
            /\ analysis[r] /= <<>> =>
                  /\ C15_NoManifestProfile(analysis[r])
                  /\ analysis[r].framework = "traditional"
            /\ strategy[r] /= <<>> => strategy[r].name = "Traditional Web App Strategy"
            /\ pc[r] \in {"done", "responded"} =>
                  /\ envelope[r].success
                  /\ C15_NoManifestProfile(envelope[r].analysis)
                  /\ envelope[r].analysis.framework = "traditional"
                  /\ envelope[r].strategy.name = "Traditional Web App Strategy"
                  /\ envelope[r].strategy.testPatterns[1] = "page-navigation"

\* the run on the repository whose package.json does not parse was answered
C15_Witness ==
    /\ pc["r1"] = "responded"
    /\ githubUrl["r1"] = "https://github.com/acme/legacy"
    /\ Exists(RepoFs("r1"), <<"package.json">>)
    /\ RepoFs("r1").packageJson.kind = "invalid"
    /\ envelope["r1"].success
    /\ ~envelope["r1"].analysis.hasPackageJson
    /\ envelope["r1"].strategy.name = "Traditional Web App Strategy"

\* ---- C16 ---------------------------------------------------------------
\* run r holds the list generateTestSpecs returned
Generated(r) == pc[r] \in {"fn_specs", "fn_summary", "fn_direct_specs", "fn_direct_summary"}

\* the content of a spec without its timestamp line
C16_Undated(content) == [content EXCEPT !.comment.Fecha = 0]

\* C16: two calls of generateTestSpecs on identical (Analysis, Strategy)
\* inputs return lists of the same length whose i-th elements agree on name,
\* path, type and base template; the contents differ at most in the
\* timestamp line.
C16_SameShape ==
    (/\ Generated("r1") /\ Generated("r2")
     /\ analysis["r1"] = analysis["r2"]
     /\ strategy["r1"] = strategy["r2"]) =>
        /\ Len(generatedSpecs["r1"]) = Len(generatedSpecs["r2"])
        /\ \A i \in 1..Len(generatedSpecs["r1"]) :
              LET x == generatedSpecs["r1"][i]
                  y == generatedSpecs["r2"][i]
              IN  /\ x.name = y.name
                  /\ x.path = y.path
                  /\ x.type = y.type
                  /\ getBaseTemplateKey(x.type) = getBaseTemplateKey(y.type)
                  /\ x.content.body = y.content.body
                  /\ C16_Undated(x.content) = C16_Undated(y.content)

\* the two calls ran at different times, so the lists differ, in the
\* timestamp line only
C16_Witness ==
    /\ pc["r1"] = "fn_specs"
    /\ pc["r2"] = "fn_specs"
    /\ analysis["r1"] = analysis["r2"]
    /\ strategy["r1"] = strategy["r2"]
    /\ Len(generatedSpecs["r1"]) = 4
    /\ generatedSpecs["r1"] /= generatedSpecs["r2"]
    /\ generatedSpecs["r1"][4].content.comment.Fecha /= generatedSpecs["r2"][4].content.comment.Fecha

\* ---- C17 ---------------------------------------------------------------
\* the sum of the counts of a histogram
RECURSIVE C17_Sum(_)
C17_Sum(h) ==
    IF DOMAIN h = {} THEN 0
    ELSE LET t == CHOOSE x \in DOMAIN h : TRUE
         IN  h[t] + C17_Sum([x \in (DOMAIN h) \ {t} |-> h[x]])

\* C17: generateSpecSummary returns totalSpecs = the number of specs,
\* specTypes[t] = the number of specs of type t for exactly the types that
\* occur (no zero count, the counts sum to totalSpecs),
\* estimatedExecutionTime = 30 * totalSpecs, and the Strategy's focusAreas
\* unchanged.
C17_SummaryCounts ==
    \A r \in Runs :
        pc[r] \in {"fn_summary", "fn_direct_summary"} =>
            LET specs == generatedSpecs[r]
                summary == specSummary[r]
                count(t) == Cardinality({i \in 1..Len(specs) : specs[i].type = t})
            IN  /\ summary.totalSpecs = Len(specs)
                /\ DOMAIN summary.specTypes = {specs[i].type : i \in 1..Len(specs)}
                /\ \A t \in DOMAIN summary.specTypes :
                      summary.specTypes[t] = count(t) /\ summary.specTypes[t] > 0
                /\ \A t \in Range(strategy[r].testPatterns) \ DOMAIN summary.specTypes :
                      count(t) = 0
                /\ C17_Sum(summary.specTypes) = summary.totalSpecs
                /\ summary.estimatedExecutionTime = 30 * summary.totalSpecs
                /\ summary.focusAreas = strategy[r].focusAreas

\* five specs over two patterns were summarised: three and two
C17_Witness ==
    /\ pc["r1"] = "fn_direct_summary"
    /\ strategy["r1"].testPatterns = <<"api-testing", "form-testing">>
    /\ specSummary["r1"].totalSpecs = 5
    /\ specSummary["r1"].specTypes["api-testing"] = 3
    /\ specSummary["r1"].specTypes["form-testing"] = 2
    /\ specSummary["r1"].estimatedExecutionTime = 150

\* ---- C20 ---------------------------------------------------------------
\* the tags whose trigger fires for an Analysis
C20_Fired(a) ==
    {tag \in {"form-testing", "authentication", "navigation-testing", "api-testing"} :
        CASE tag = "form-testing" ->
                \E i \in 1..Len(a.projectStructure) : PathIncludes(a.projectStructure[i].path, FormNames)
          [] tag = "authentication" ->
                \E i \in 1..Len(a.projectStructure) : PathIncludes(a.projectStructure[i].path, AuthNames)
          [] tag = "navigation-testing" -> Len(a.entryPoints) > 1
          [] tag = "api-testing" ->
                \E i \in 1..Len(a.projectStructure) : PathIncludes(a.projectStructure[i].path, ApiNames)}

\* C20: focusAreas is the sub-list of [form-testing, authentication,
\* navigation-testing, api-testing], in that order, of the tags whose trigger
\* fires; [smoke-testing, critical-flows] when none fires; never empty; with
\* two entry points and a forms path it contains form-testing and
\* navigation-testing.
C20_FocusAreas ==
    \A r \in Runs :
        pc[r] \in {"fn_strategy", "fn_specs"} =>
            LET a == analysis[r]
                focusAreas == strategy[r].focusAreas
                fired == C20_Fired(a)
            IN  /\ focusAreas /= <<>>
                /\ fired = {} => focusAreas = <<"smoke-testing", "critical-flows">>
                /\ fired /= {} =>
                      focusAreas = SelectSeqBy(<<"form-testing", "authentication",
                                                 "navigation-testing", "api-testing">>, fired)
                /\ (Len(a.entryPoints) = 2 /\ "form-testing" \in fired) =>
                      {"form-testing", "navigation-testing"} \subseteq Range(focusAreas)

\* two entry points and a forms path, and nothing else
C20_Witness ==
    /\ pc["r1"] = "fn_strategy"
    /\ Len(analysis["r1"].entryPoints) = 2
    /\ analysis["r1"].projectStructure = <<SignalEntry("forms")>>
    /\ strategy["r1"].focusAreas = <<"form-testing", "navigation-testing">>

\* ------------------------------------------------------------------------
\* One invocation after the other (the command line: one run per process)
\* ------------------------------------------------------------------------
\* the second invocation starts when the first has returned
SeqStart(r) ==
    /\ r = "r2" => pc["r1"] = "done"
    /\ Start(r)

SeqNext == \E r \in Runs : SeqStart(r) \/ Pipeline(r)

SeqSpec == Init /\ [][SeqNext]_vars

\* the spec list of run r: the local of the call, or what the call returned
SpecsOf(r) ==
    IF generatedSpecs[r] /= <<>> THEN generatedSpecs[r]
    ELSE IF envelope[r] /= <<>> /\ envelope[r].success THEN envelope[r].generatedSpecs
    ELSE <<>>

\* saveSpecsToDisk of run r has returned true
SavedAll(r) ==
    \/ pc[r] \in {"summary", "return"} /\ specsSaved[r]
    \/ pc[r] = "done" /\ envelope[r].success /\ envelope[r].specsSaved

\* ---- C18 ---------------------------------------------------------------
\* C18: the i-th spec of a run (0-based) is named generated-spec-<i+1>.cy.js
\* and has the path cypress/e2e/<name>, so the names of one run are pairwise
\* distinct; a later run uses the same names, and every file it saves
\* replaces what the earlier run left under that name.
C18_IndexNames ==
    /\ \A r \in Runs :
          LET specs == SpecsOf(r)
          IN  /\ \A k \in 1..Len(specs) :
                    /\ specs[k].name = <<"generated-spec-", k, ".cy.js">>
                    /\ specs[k].path = [dir |-> "cypress/e2e/", name |-> specs[k].name]
              /\ \A j, k \in 1..Len(specs) : specs[j].name = specs[k].name => j = k
    /\ LET later == SpecsOf("r2")
           written == IF SavedAll("r2") THEN Len(later)
                      ELSE IF pc["r2"] = "save_write" THEN saveIdx["r2"] - 1
                      ELSE 0
       IN  \A k \in 1..written :
              /\ later[k].name \in DOMAIN outputDir
              /\ outputDir[later[k].name] = later[k].content

\* both runs saved their specs, one after the other; the first file is the
\* later run's and no longer the earlier run's
C18_Witness ==
    /\ pc["r1"] = "done" /\ SavedAll("r1")
    /\ pc["r2"] = "done" /\ SavedAll("r2")
    /\ SpecsOf("r1")[1].name = SpecsOf("r2")[1].name
    /\ SpecsOf("r1")[1].content /= SpecsOf("r2")[1].content
    /\ outputDir[SpecName(0)] = SpecsOf("r2")[1].content

\* ---- C19 ---------------------------------------------------------------
\* the Analyses processRepository(url) can return when it runs alone: the
\* analysis of the cloned tree after either outcome of the installation
C19_AloneAnalyses(url) ==
    {deepAnalysis(installDependencies(Remote(url, "r1"), TRUE, outcome).fs, date) :
        outcome \in InstallOutcomes, date \in 0..MaxClock}

\* C19: under every interleaving of two processRepository calls on the
\* shared agent, the Analysis, Strategy, spec list and summary a call returns
\* are those it returns when it runs alone.
C19_Independent ==
    \A r \in Runs :
        (pc[r] = "done" /\ envelope[r].success) =>
            \E a \in C19_AloneAnalyses(githubUrl[r]) :
                /\ envelope[r].analysis = a
                /\ envelope[r].strategy = generateStrategy(a)
                /\ Len(envelope[r].generatedSpecs) = generateStrategy(a).recommendedSpecs
                /\ \A i \in 1..Len(envelope[r].generatedSpecs) :
                      envelope[r].generatedSpecs[i].type = selectSpecType(generateStrategy(a), i - 1)
                /\ envelope[r].specSummary.totalSpecs = generateStrategy(a).recommendedSpecs
                /\ envelope[r].specSummary.focusAreas = generateStrategy(a).focusAreas

\* ---- C21 ---------------------------------------------------------------
\* C21: testPatterns is the selected profile's base pattern list in its
\* order, followed by api-testing if axios or fetch is declared as a
\* dependency, then multi-page-testing if there is more than one entry
\* point, then form-validation if some projectStructure path contains form;
\* it is never empty.
C21_PatternList ==
    \A r \in Runs :
        pc[r] \in {"fn_strategy", "fn_specs"} =>
            LET a == analysis[r]
                base == IF a.framework \in {"react", "vue", "angular", "traditional"}
                        THEN strategies[a.framework].patterns
                        ELSE strategies["traditional"].patterns
                declared == DOMAIN a.dependencies
            IN  /\ strategy[r].testPatterns /= <<>>
                /\ strategy[r].testPatterns =
                      base
                      \o (IF "axios" \in declared \/ "fetch" \in declared
                          THEN <<"api-testing">> ELSE <<>>)
                      \o (IF Len(a.entryPoints) > 1 THEN <<"multi-page-testing">> ELSE <<>>)
                      \o (IF \E i \in 1..Len(a.projectStructure) :
                                PathIncludes(a.projectStructure[i].path, FormNames)
                          THEN <<"form-validation">> ELSE <<>>)

\* ------------------------------------------------------------------------
\* The generator on one pattern tag at a time
\* ------------------------------------------------------------------------
\* the keys of the template table, every pattern of every profile and the
\* three tags selectTestPatterns appends
TemplateTags ==
    (DOMAIN templateMap)
    \cup UNION {Range(strategies[f].patterns) : f \in DOMAIN strategies}
    \cup {"api-testing", "multi-page-testing", "form-validation"}

TemplateInit ==
    /\ RestIdle
    /\ generatedSpecs = [r \in Runs |-> <<>>]
    /\ pc = OnlyR1("fn_direct", "idle")
    /\ \E f \in Frameworks : analysis = OnlyR1(AnalysisOf(f, <<>>, <<>>, 0), <<>>)
    /\ \E tag \in TemplateTags :
          strategy = OnlyR1([generateStrategy(AnalysisOf("vue", <<>>, <<>>, 0)) EXCEPT
                                !.recommendedSpecs = 1, !.testPatterns = <<tag>>], <<>>)

TemplateNext == \E r \in Runs : FnGenerateTestSpecs(r)

TemplateSpec == TemplateInit /\ [][TemplateNext]_vars

\* ---- C22 ---------------------------------------------------------------
\* the template the fixed table gives a tag, basic for every other tag
C22_Table(tag) ==
    CASE tag \in {"component-testing", "user-interactions", "state-changes"} -> "basic"
      [] tag = "navigation-testing" -> "navigation"
      [] tag = "form-testing" -> "forms"
      [] tag = "api-testing" -> "api"
      [] OTHER -> "basic"

\* C22: the spec generated for a pattern tag is built from the template the
\* fixed table gives the tag (component-testing, user-interactions,
\* state-changes -> basic; navigation-testing -> navigation; form-testing ->
\* forms; api-testing -> api), and from the basic template for every tag
\* that is not a key of the table.
C22_TemplateTable ==
    \A r \in Runs :
        pc[r] = "fn_direct_specs" =>
            \A i \in 1..Len(generatedSpecs[r]) :
                LET spec == generatedSpecs[r][i]
                    template == specTemplates[C22_Table(spec.type)]
                IN  /\ Len(spec.content.body) = Len(template)
                    /\ Head(spec.content.body) = Head(template)
                    /\ analysis[r].framework \notin {"react", "vue", "angular"} =>
                          spec.content.body = template

\* a tag outside the table got the basic template
C22_Witness ==
    /\ pc["r1"] = "fn_direct_specs"
    /\ generatedSpecs["r1"][1].type = "form-validation"
    /\ analysis["r1"].framework = "traditional"
    /\ generatedSpecs["r1"][1].content.body = specTemplates["basic"]

\* ---- C23 ---------------------------------------------------------------
\* the output directory holds exactly the first m specs of the list
C23_FirstWritten(specs, m) ==
    /\ DOMAIN outputDir = {specs[i].name : i \in 1..m}
    /\ \A i \in 1..m : outputDir[specs[i].name] = specs[i].content

\* what saveSpecsToDisk returned to run r
C23_ReturnedTrue(r) ==
    IF pc[r] \in {"summary", "return"} THEN specsSaved[r]
    ELSE envelope[r].success /\ envelope[r].specsSaved

\* C23 (one run into an empty output directory): the specs are written one
\* at a time in list order; when the write of the k-th spec fails
\* saveSpecsToDisk returns false, the k-1 specs before it stay written and
\* none after it is written; it returns true only when every spec is written.
C23_PartialSave ==
    \A r \in Runs :
        LET specs == SpecsOf(r)
            n == Len(specs)
        IN  /\ pc[r] \in {"generation", "save"} => outputDir = <<>>
            /\ pc[r] = "save_write" => C23_FirstWritten(specs, saveIdx[r] - 1)
            /\ (pc[r] \in {"summary", "return"} /\ ~specsSaved[r]) =>
                  /\ saveIdx[r] <= n
                  /\ C23_FirstWritten(specs, IF saveIdx[r] = 0 THEN 0 ELSE saveIdx[r] - 1)
            /\ (pc[r] \in {"summary", "return", "done", "responded"} /\ specs /= <<>>) =>
                  /\ \E m \in 0..n : C23_FirstWritten(specs, m)
                  /\ C23_ReturnedTrue(r) <=> C23_FirstWritten(specs, n)

\* the write of the third spec failed: the run returned specsSaved = false
\* and the first two files are on disk
C23_Witness ==
    /\ pc["r1"] = "done"
    /\ envelope["r1"].success
    /\ ~envelope["r1"].specsSaved
    /\ Len(envelope["r1"].generatedSpecs) >= 3
    /\ C23_FirstWritten(envelope["r1"].generatedSpecs, 2)

\* ---- C24 ---------------------------------------------------------------
\* C24: the walk descends at most 3 levels below the directory it is started
\* in, whatever depth it is started at: every entry a scan emits lies at most
\* 3 levels below the root listing (its path has at most 4 segments), for the
\* scan of deepAnalysis (started at depth 0) and for the scan of
\* quickAnalysis (started at depth 2), where the depth counted from the
\* start value never exceeds 3 either.
C24_ThreeLevels ==
    \A r \in Runs :
        pc[r] \in {"scan_deep", "scan_quick"} =>
            \A i \in 1..Len(analysis[r].projectStructure) :
                LET e == analysis[r].projectStructure[i]
                    levelsBelowStart == Len(e.path) - 1
                IN  /\ levelsBelowStart <= 3
                    /\ ScanStartDepth(r) + levelsBelowStart <= 3

\* a scan from depth 0 went three levels down a chain of important
\* directories five levels deep and emitted nothing of the fourth level
C24_Witness ==
    /\ pc["r1"] = "scan_deep"
    /\ <<"src", "src", "src", "src", "src">> \in ScannedTree("r1").dirs
    /\ <<"src", "src", "src", "src", "index.js">> \in ScannedTree("r1").files
    /\ \E i \in 1..Len(analysis["r1"].projectStructure) :
          analysis["r1"].projectStructure[i].path = <<"src", "src", "src", "src">>
    /\ \A i \in 1..Len(analysis["r1"].projectStructure) :
          Len(analysis["r1"].projectStructure[i].path) <= 4

\* ---- C28 ---------------------------------------------------------------
\* C28: in every Analysis deepAnalysis returns, cypressInstalled = true
\* implies dependenciesInstalled = true, also when the classification of the
\* scripts fails after the Cypress check.
C28_CypressImpliesInstalled ==
    \A r \in Runs :
        /\ analysis[r] /= <<>> =>
              (analysis[r].cypressInstalled => analysis[r].dependenciesInstalled)
        /\ (envelope[r] /= <<>> /\ envelope[r].success) =>
              (envelope[r].analysis.cypressInstalled => envelope[r].analysis.dependenciesInstalled)

\* ---- C25 ---------------------------------------------------------------
\* the record of run r once the installed-dependency sub-step is over
C25_Record(r) ==
    IF pc[r] \in {"da_structure", "da_detect", "da_tests", "da_build", "da_catch"}
    THEN daAnalysis[r]
    ELSE IF analysis[r] /= <<>> THEN analysis[r]
    ELSE IF envelope[r] /= <<>> /\ envelope[r].success THEN envelope[r].analysis
    ELSE <<>>

\* the classification of the scripts failed inside analyzeInstalledDependencies
C25_InstalledFailed(r, a) ==
    /\ Exists(RepoFs(r), <<"node_modules">>)
    /\ a.hasScripts
    /\ analyzeExecutableScriptsThrows(a.scripts)

\* C25: a failure inside one sub-step of deepAnalysis leaves that sub-step's
\* result at its empty/false default and every later sub-step still runs:
\* after a failure of the installed-dependency analysis its four fields are
\* false/empty, after a failure of the build-tool analysis its two fields
\* are empty, and the analysis stage is left for the next stage, never for
\* processRepository's catch.
C25_FailSoft ==
    \A r \in Runs :
        LET a == C25_Record(r)
        IN  /\ (thrown[r] /= <<>> /\ pc[r] = "catch") => thrown[r].stage /= "analysis"
            /\ (a /= <<>> /\ C25_InstalledFailed(r, a)) =>
                  /\ ~a.dependenciesInstalled
                  /\ ~a.cypressInstalled
                  /\ a.executableScripts = <<>>
                  /\ a.testingFrameworks = <<>>
            /\ (a /= <<>> /\ pc[r] \notin {"da_structure", "da_detect", "da_tests", "da_build"}
                /\ analyzeBuildToolsThrows(a)) =>
                  /\ a.buildTools = <<>>
                  /\ a.buildScripts = <<>>

\* ---- C26 ---------------------------------------------------------------
\* C26: whatever dependencies and devDependencies hold, detectFrameworkAndType
\* never sets framework to nextjs or nuxtjs (every indicator of either is an
\* indicator of the earlier entries react and vue), so the project types
\* Next.js SSR Application and Nuxt.js SSR Application are never produced.
C26_NoSsrFramework ==
    \A r \in Runs :
        pc[r] = "detect_out" =>
            /\ analysis[r].framework \notin {"nextjs", "nuxtjs"}
            /\ analysis[r].projectType \notin {"Next.js SSR Application", "Nuxt.js SSR Application"}
            /\ HasTruthy(Spread(analysis[r].dependencies, analysis[r].devDependencies), "next")
                  => analysis[r].framework = "react"

\* a manifest that declares next and nothing of react's other indicators was
\* detected as react
C26_Witness ==
    /\ pc["r1"] = "detect_out"
    /\ analysis["r1"].dependencies = [next |-> "^1.0.0"]
    /\ analysis["r1"].devDependencies = <<>>
    /\ analysis["r1"].framework = "react"
    /\ analysis["r1"].projectType = "Next.js Application"

\* ------------------------------------------------------------------------
\* Strategy and generation on analyses large enough to go round the patterns
\* ------------------------------------------------------------------------
\* the largest structure of RoundAnalyses, in fifties
MaxFifties == 3

\* Analyses of every framework, with an HTTP client declared or not, a forms
\* path or not, up to every candidate entry point found, and a structure of
\* one, two or three times fifty further entries
RoundAnalyses ==
    {AnalysisOf(f, d, SignalEntries(sig) \o [i \in 1..(50 * l) |-> FillerEntry], e) :
        f \in Frameworks,
        d \in {<<>>, [axios |-> "^1.6.0"], [fetch |-> "^3.0.0"]},
        sig \in SUBSET {"forms"},
        l \in 0..MaxFifties,
        e \in 0..Len(possibleEntries)}

RoundInit ==
    /\ RestIdle
    /\ generatedSpecs = [r \in Runs |-> <<>>]
    /\ strategy = [r \in Runs |-> <<>>]
    /\ pc = OnlyR1("fn_analysis", "idle")
    /\ \E a \in RoundAnalyses : analysis = OnlyR1(a, <<>>)

RoundNext == \E r \in Runs : FnGenerateStrategy(r) \/ FnGenerateTestSpecs(r)

RoundSpec == RoundInit /\ [][RoundNext]_vars

\* ---- C27 ---------------------------------------------------------------
\* C27: for every Strategy generateStrategy produces, each generated spec is
\* built from the api template exactly when its type is api-testing and from
\* the basic template otherwise; the navigation and forms templates are
\* never selected.
C27_ApiOrBasic ==
    \A r \in Runs :
        pc[r] = "fn_specs" =>
            \A i \in 1..Len(generatedSpecs[r]) :
                LET spec == generatedSpecs[r][i]
                    opening == Head(spec.content.body)
                IN  /\ spec.type = "api-testing" <=> opening = Head(specTemplates["api"])
                    /\ spec.type /= "api-testing" <=> opening = Head(specTemplates["basic"])
                    /\ opening /= Head(specTemplates["navigation"])
                    /\ opening /= Head(specTemplates["forms"])
                    /\ spec.type \notin {"navigation-testing", "form-testing"}

\* a plan with a forms path and an HTTP client went once round its seven
\* patterns: the fifth spec is api-testing on the api template, the seventh
\* form-validation on the basic template
C27_Witness ==
    /\ pc["r1"] = "fn_specs"
    /\ analysis["r1"].framework = "traditional"
    /\ Len(strategy["r1"].testPatterns) = 7
    /\ Len(generatedSpecs["r1"]) >= 7
    /\ generatedSpecs["r1"][5].type = "api-testing"
    /\ generatedSpecs["r1"][5].content.body = specTemplates["api"]
    /\ generatedSpecs["r1"][7].type = "form-validation"
    /\ generatedSpecs["r1"][7].content.body = specTemplates["basic"]

\* ------------------------------------------------------------------------
\* Two webhook requests, the second received after the first was answered
\* ------------------------------------------------------------------------
HookSeqAccept(r) ==
    /\ r = "r2" => pc["r1"] = "responded"
    /\ AcceptRequest(r)

HookSeqNext ==
    \E r \in Runs : RejectRequest(r) \/ HookSeqAccept(r) \/ Pipeline(r) \/ Respond(r)

HookSeqSpec == Init /\ [][HookSeqNext]_vars

\* ---- C29 ---------------------------------------------------------------
\* run r was answered with success and with all its specs saved
C29_Saved(r) ==
    /\ pc[r] = "responded"
    /\ response[r].success
    /\ envelope[r].specsSaved

\* no step removes a file, and a step that changes a file is the write of
\* the current spec of a run that is saving
C29_OnlyOwnFiles ==
    /\ DOMAIN outputDir \subseteq DOMAIN outputDir'
    /\ \A name \in DOMAIN outputDir' :
          (name \notin DOMAIN outputDir \/ outputDir'[name] /= outputDir[name]) =>
              \E r \in Runs :
                  /\ pc[r] = "save_write"
                  /\ generatedSpecs[r][saveIdx[r]].name = name
                  /\ saveIdx[r] \in 1..Len(generatedSpecs[r])

\* after a run of n specs that followed a run of more than n specs, the
\* files beyond n are still the earlier run's, and the later run's response
\* lists more files than its totalSpecs
C29_StaleFilesStay ==
    (C29_Saved("r1") /\ C29_Saved("r2")
     /\ Len(envelope["r1"].generatedSpecs) > Len(envelope["r2"].generatedSpecs)) =>
        LET earlier == envelope["r1"].generatedSpecs
            n == Len(envelope["r2"].generatedSpecs)
        IN  /\ \A k \in (n + 1)..Len(earlier) :
                  /\ earlier[k].name \in DOMAIN outputDir
                  /\ outputDir[earlier[k].name] = earlier[k].content
            /\ response["r2"].output.generatedSpecs.total = n
            /\ Len(response["r2"].output.files) = Len(earlier)
            /\ Len(response["r2"].output.files) > response["r2"].output.generatedSpecs.total

\* C29: saveSpecsToDisk only creates or overwrites the files
\* generated-spec-1..n of the current run and never deletes a file; so when a
\* run producing n specs follows a run producing more than n specs, the files
\* with index greater than n still hold the earlier run's content and the file
\* list of the webhook response is longer than that run's totalSpecs.
C29_NoDeletion == [][C29_OnlyOwnFiles]_vars /\ []C29_StaleFilesStay

\* the run on the repository without a manifest (three specs) followed the
\* run on the shop (four specs) and was answered with four files
C29_Witness ==
    /\ C29_Saved("r1") /\ C29_Saved("r2")
    /\ Len(envelope["r1"].generatedSpecs) = 4
    /\ Len(envelope["r2"].generatedSpecs) = 3
    /\ outputDir[SpecName(3)] = envelope["r1"].generatedSpecs[4].content
    /\ outputDir[SpecName(0)] = envelope["r2"].generatedSpecs[1].content
    /\ Len(response["r2"].output.files) = 4
    /\ response["r2"].output.generatedSpecs.total = 3

\* ------------------------------------------------------------------------
\* Two webhook requests, the second received while the first run is about
\* to save; from there on the steps of the two runs interleave freely
\* ------------------------------------------------------------------------
HookPairAccept(r) ==
    /\ r = "r2" => pc["r1"] = "save"
    /\ AcceptRequest(r)

HookPairNext ==
    \E r \in Runs : RejectRequest(r) \/ HookPairAccept(r) \/ Pipeline(r) \/ Respond(r)

HookPairSpec == Init /\ [][HookPairNext]_vars

\* ---- C30 ---------------------------------------------------------------
\* the step is a write of run r: its index advances or its save ends well
C30_Writes(r) ==
    /\ pc[r] = "save_write"
    /\ \/ saveIdx'[r] = saveIdx[r] + 1
       \/ pc'[r] /= "save_write" /\ specsSaved'[r]

\* a write puts the writer's content in its file, whatever the file held and
\* whoever wrote it before, and leaves every other file as it was
C30_LastWriterWins ==
    \A r \in Runs :
        C30_Writes(r) =>
            LET spec == generatedSpecs[r][saveIdx[r]]
            IN  /\ spec.name \in DOMAIN outputDir'
                /\ outputDir'[spec.name] = spec.content
                /\ \A name \in DOMAIN outputDir :
                      name /= spec.name =>
                          name \in DOMAIN outputDir' /\ outputDir'[name] = outputDir[name]

\* once both runs have saved all their specs each file holds the content one
\* of them wrote under that name
C30_EachFileFromARun ==
    (C29_Saved("r1") /\ C29_Saved("r2")) =>
        \A name \in DOMAIN outputDir :
            \E r \in Runs : \E k \in 1..Len(envelope[r].generatedSpecs) :
                /\ envelope[r].generatedSpecs[k].name = name
                /\ envelope[r].generatedSpecs[k].content = outputDir[name]

\* C30: the save step of a run is not atomic with respect to other runs: the
\* per-file writes of two runs saving into the shared output directory
\* interleave, and each file generated-spec-k finally holds the content of
\* whichever run wrote it last.
C30_SaveNotAtomic == [][C30_LastWriterWins]_vars /\ []C30_EachFileFromARun

\* both runs wrote the first two files, the first is the second run's and
\* the second is the first run's, and the first run's response lists a file
\* that only the second run wrote
C30_Witness ==
    /\ C29_Saved("r1") /\ C29_Saved("r2")
    /\ LET s1 == envelope["r1"].generatedSpecs
           s2 == envelope["r2"].generatedSpecs
       IN  /\ Len(s1) >= 2 /\ Len(s2) > Len(s1)
           /\ s1[1].content /= s2[1].content
           /\ s1[2].content /= s2[2].content
           /\ outputDir[s1[1].name] = s2[1].content
           /\ outputDir[s1[2].name] = s1[2].content
           /\ Len(response["r1"].output.files) = Len(s2)
           /\ response["r1"].output.generatedSpecs.total = Len(s1)

====
